---- MODULE Spec2Model ----
(***************************************************************************)
(* Matrix recovery engine of the D3D9 camera proxy (src/d3d9_proxy.cpp):   *)
(* the per-upload classification of shader constant windows into World,    *)
(* View and Projection, the per-frame source locks, the combined-matrix    *)
(* decomposition, the draw-time emission with staleness fallback and the   *)
(* consumer snapshot.                                                      *)
(*                                                                         *)
(* Floats are fixed-point integers: the float x is the integer x * Scale,  *)
(* products and quotients are rescaled and truncated toward zero.          *)
(* A matrix D3DMATRIX is a 16-tuple in row-major order, _rc at 4*(r-1)+c.  *)
(***************************************************************************)
EXTENDS Integers, Sequences, FiniteSets, TLC

\* ------------------------------------------------------------------ bounds
\* Highest value of g_frameCount the model explores (Present is disabled there).
MaxFrame == 3
\* The most scanner threads CreateThread creates in one run.
MaxScans == 3
\* Vertex shader identities 1..MaxShader exist besides 0 (no shader bound).
MaxShader == 1

\* ------------------------------------------------------- fixed-point floats
Scale == 10 * 10 * 10

Abs(x) == IF x < 0 THEN -x ELSE x

\* C division of integers: the quotient truncated toward zero.
TruncDiv(a, b) ==
    (IF (a >= 0) = (b > 0) THEN 1 ELSE -1)
    * ((IF a < 0 THEN -a ELSE a) \div (IF b < 0 THEN -b ELSE b))

\* The largest magnitude a model float takes (stands for an infinite/huge float).
FloatMax == 2000 * Scale

Clamp(x) == IF x > FloatMax THEN FloatMax ELSE IF x < -FloatMax THEN -FloatMax ELSE x

\* a * b on floats (the operands are rescaled first when the product would
\* leave the integer range).
FMul(a, b) ==
    IF Abs(a) > 46000 /\ Abs(b) > 46000
    THEN (IF (a > 0) = (b > 0) THEN FloatMax ELSE -FloatMax)
    ELSE IF Abs(a) > 46000 THEN Clamp(TruncDiv(Clamp(a), Scale) * b)
    ELSE IF Abs(b) > 46000 THEN Clamp(a * TruncDiv(Clamp(b), Scale))
    ELSE Clamp(TruncDiv(a * b, Scale))

\* a / b on floats; a division by zero yields the huge float of a's sign.
FDiv(a, b) ==
    IF b = 0 THEN (IF a < 0 THEN -FloatMax ELSE FloatMax)
    ELSE Clamp(TruncDiv(Clamp(a) * Scale, b))

FMul3(a, b, c) == FMul(FMul(a, b), c)

RECURSIVE SqrtSearch(_, _, _)
\* Largest r in lo..hi with r * r <= n (lo * lo <= n is given).
SqrtSearch(lo, hi, n) ==
    IF lo >= hi THEN lo
    ELSE LET mid == (lo + hi + 1) \div 2
         IN  IF mid * mid <= n THEN SqrtSearch(mid, hi, n)
             ELSE SqrtSearch(lo, mid - 1, n)

\* sqrtf(x) on floats (x >= 0): the integer square root of x * Scale.
Sqrtf(x) == IF x <= 0 THEN 0 ELSE SqrtSearch(0, 46000, Clamp(x) * Scale)

\* Breakpoints <<angle, tan(angle)>> of the tangent on [0, pi/2), both as floats.
TanTable ==
    << <<0, 0>>, <<5, 5>>, <<25, 25>>, <<50, 50>>, <<100, 100>>, <<150, 151>>,
       <<200, 203>>, <<250, 255>>, <<300, 309>>, <<350, 365>>, <<400, 423>>,
       <<450, 483>>, <<500, 546>>, <<550, 613>>, <<600, 684>>, <<650, 760>>,
       <<700, 842>>, <<750, 932>>, <<785, 999>>, <<800, 1030>>, <<850, 1138>>, <<900, 1260>>,
       <<950, 1398>>, <<1000, 1557>>, <<1050, 1743>>, <<1100, 1965>>,
       <<1150, 2234>>, <<1200, 2572>>, <<1250, 3010>>, <<1300, 3602>>,
       <<1350, 4455>>, <<1400, 5798>>, <<1450, 8238>>, <<1500, 14101>>,
       <<1530, 24498>>, <<1550, 48078>>, <<1565, 172521>> >>

\* Linear interpolation between the breakpoints i and i + 1 of the table T:
\* the coordinate `to` at the point whose coordinate `from` is v.
InterpolateAt(T, i, v, from, to) ==
    T[i][to] + ((v - T[i][from]) * (T[i + 1][to] - T[i][to]))
               \div (T[i + 1][from] - T[i][from])

\* The same in the segment of T that holds v; `last` beyond the last breakpoint.
Interpolate(T, v, from, to, last) ==
    IF v >= T[Len(T)][from] THEN last
    ELSE InterpolateAt(
             T, CHOOSE k \in 1..(Len(T) - 1) : T[k][from] <= v /\ v < T[k + 1][from],
             v, from, to)

\* atanf(x) for x >= 0.
Atanf(x) == Interpolate(TanTable, x, 2, 1, 1571)

\* tanf(a) for 0 <= a < pi/2.
Tanf(a) == Interpolate(TanTable, a, 1, 2, TanTable[Len(TanTable)][2])

\* ----------------------------------------------------------------- matrices
\* m._rc, written El(m, rc): El(m, 34) is m._34.
El(m, rc) == m[4 * ((rc \div 10) - 1) + (rc % 10)]

\* The float n/d.
Ratio(n, d) == TruncDiv(n * Scale, d)

Mat(r1, r2, r3, r4) == r1 \o r2 \o r3 \o r4

CreateIdentityMatrix ==
    Mat(<<Scale, 0, 0, 0>>, <<0, Scale, 0, 0>>, <<0, 0, Scale, 0>>, <<0, 0, 0, Scale>>)

\* D3DMATRIX m = {}
ZeroMatrix == Mat(<<0, 0, 0, 0>>, <<0, 0, 0, 0>>, <<0, 0, 0, 0>>, <<0, 0, 0, 0>>)

Dot3(ax, ay, az, bx, by, bz) == FMul(ax, bx) + FMul(ay, by) + FMul(az, bz)

Determinant3x3(m) ==
    FMul(El(m, 11), FMul(El(m, 22), El(m, 33)) - FMul(El(m, 23), El(m, 32)))
    - FMul(El(m, 12), FMul(El(m, 21), El(m, 33)) - FMul(El(m, 23), El(m, 31)))
    + FMul(El(m, 13), FMul(El(m, 21), El(m, 32)) - FMul(El(m, 22), El(m, 31)))

\* The 16 entries e(r, c) as a matrix.
Entries(e(_, _)) ==
    SubSeq([i \in 1..16 |-> e(((i - 1) \div 4) + 1, ((i - 1) % 4) + 1)], 1, 16)

TransposeMatrix(mat) ==
    LET e(r, c) == mat[4 * (c - 1) + r]
    IN  Entries(e)

MultiplyMatrix(a, b) ==
    LET e(r, c) == FMul(a[4 * (r - 1) + 1], b[c]) + FMul(a[4 * (r - 1) + 2], b[4 + c])
                   + FMul(a[4 * (r - 1) + 3], b[8 + c]) + FMul(a[4 * (r - 1) + 4], b[12 + c])
    IN  Entries(e)

\* The 3x3 minor of m on rows rs and columns cs (each a triple of 1..4).
Minor3(m, rs, cs) ==
    LET e(i, j) == m[4 * (rs[i] - 1) + cs[j]]
    IN  FMul(e(1, 1), FMul(e(2, 2), e(3, 3)) - FMul(e(2, 3), e(3, 2)))
        - FMul(e(1, 2), FMul(e(2, 1), e(3, 3)) - FMul(e(2, 3), e(3, 1)))
        + FMul(e(1, 3), FMul(e(2, 1), e(3, 2)) - FMul(e(2, 2), e(3, 1)))

Others(k) == IF k = 1 THEN <<2, 3, 4>> ELSE IF k = 2 THEN <<1, 3, 4>>
             ELSE IF k = 3 THEN <<1, 2, 4>> ELSE <<1, 2, 3>>

\* inv[] of InvertMatrix4x4Deterministic: the adjugate, entry (r, c) being the
\* signed minor that leaves out row c and column r.
Adjugate(m) ==
    LET e(r, c) == (IF (r + c) % 2 = 0 THEN 1 ELSE -1) * Minor3(m, Others(c), Others(r))
    IN  Entries(e)

\* det of InvertMatrix4x4Deterministic, from the input in and its adjugate inv.
MatrixDeterminant(in, inv) ==
    FMul(in[1], inv[1]) + FMul(in[2], inv[5]) + FMul(in[3], inv[9]) + FMul(in[4], inv[13])

\* The end of InvertMatrix4x4Deterministic, from inv[] and det: [ok, out]; it
\* fails when |det| <= 1e-8, which on the model's floats is det = 0.
InverseFromAdjugate(inv, det) ==
    LET e(r, c) == FDiv(inv[4 * (r - 1) + c], det)
    IN  IF Abs(det) <= 0
        THEN [ok |-> FALSE, out |-> ZeroMatrix]
        ELSE [ok |-> TRUE, out |-> Entries(e)]

InvertWithAdjugate(in, inv) == InverseFromAdjugate(inv, MatrixDeterminant(in, inv))

InvertMatrix4x4Deterministic(in) == InvertWithAdjugate(in, Adjugate(in))

InvertSimpleRigidView(view) ==
    LET o11 == El(view, 11)
        o12 == El(view, 21)
        o13 == El(view, 31)
        o21 == El(view, 12)
        o22 == El(view, 22)
        o23 == El(view, 32)
        o31 == El(view, 13)
        o32 == El(view, 23)
        o33 == El(view, 33)
        tx == El(view, 41)
        ty == El(view, 42)
        tz == El(view, 43)
    IN  Mat(<<o11, o12, o13, 0>>, <<o21, o22, o23, 0>>, <<o31, o32, o33, 0>>,
            << -(FMul(tx, o11) + FMul(ty, o21) + FMul(tz, o31)),
               -(FMul(tx, o12) + FMul(ty, o22) + FMul(tz, o32)),
               -(FMul(tx, o13) + FMul(ty, o23) + FMul(tz, o33)),
               Scale >>)

\* ------------------------------------------------------------ program state
VARIABLES
    g_config,                \* ProxyConfig, fixed after LoadConfig
    g_activeGameProfile,     \* GameProfileKind, fixed after LoadConfig
    g_frameCount,
    dev,                     \* the members of WrappedD3D9Device
    g_cameraMatrices,        \* CameraMatrices, guarded by g_cameraMatricesMutex
    g_matrixSources,         \* MatrixSourceInfo per slot
    g_combinedMvpDebug,      \* CombinedMVPDebugState
    g_gameSetTransformAnySeen,
    g_shaderConstants,       \* ShaderConstantState per shader key
    realDevice,              \* what the wrapped device received in the last call
    realCalls,               \* its Present and SetVertexShaderConstantF calls
    snapshot,                \* the static snapshot of Proxy_GetCameraMatrices
    scan                     \* g_memoryScannerThread and the scanner threads

vars == << g_config, g_activeGameProfile, g_frameCount, dev, g_cameraMatrices,
           g_matrixSources, g_combinedMvpDebug, g_gameSetTransformAnySeen,
           g_shaderConstants, realDevice, realCalls, snapshot, scan >>

kMaxConstantRegisters == 256

\* ------------------------------------------------------- the register files
\* Of the kMaxConstantRegisters registers of a ShaderConstantState the model
\* keeps the last TrackedRegisters, the ones next to the end of the file; the
\* registers of a file do not depend on each other.
TrackedRegisters == 4
Tracked == (kMaxConstantRegisters - TrackedRegisters)..(kMaxConstantRegisters - 1)

\* The most samples a register counts.
MaxSamples == 2

\* ShaderConstantState{}: constants, valid and sampleCounts of a new state.
NewShaderState ==
    [constants |-> [reg \in Tracked |-> <<0, 0, 0, 0>>],
     valid |-> [reg \in Tracked |-> FALSE],
     sampleCounts |-> [reg \in Tracked |-> 0]]

\* g_shaderConstants after GetShaderState(shaderKey, true): a function from
\* the shader keys that have a state.
GetShaderState(states, shaderKey) ==
    [key \in DOMAIN states \cup {shaderKey} |->
        IF key \in DOMAIN states THEN states[key] ELSE NewShaderState]

\* The registers the store loop of SetVertexShaderConstantF writes: reg =
\* StartRegister + i for i < Vector4fCount, until reg >= kMaxConstantRegisters.
StoredRegisters(StartRegister, Vector4fCount) ==
    { reg \in StartRegister..(StartRegister + Vector4fCount - 1) : reg < kMaxConstantRegisters }

\* The store loop run on a fresh ShaderConstantState: what the shader held
\* in the registers outside the upload is forgotten.
StoreConstantsFresh(state, StartRegister, data) ==
    [constants |-> [reg \in Tracked |->
                       IF reg \in StoredRegisters(StartRegister, Len(data))
                       THEN data[reg - StartRegister + 1] ELSE NewShaderState.constants[reg]],
     valid |-> [reg \in Tracked |-> reg \in StoredRegisters(StartRegister, Len(data))],
     sampleCounts |-> [reg \in Tracked |->
                          IF reg \in StoredRegisters(StartRegister, Len(data))
                          THEN state.sampleCounts[reg] + 1 ELSE 0]]

\* The store loop: the state of the shader after the upload of data (constant
\* overrides are set from the overlay only and are not enabled here);
\* UpdateVariance counts the sample.
StoreConstants(state, StartRegister, data) ==
    [constants |-> [reg \in Tracked |->
                       IF reg \in StoredRegisters(StartRegister, Len(data))
                       THEN data[reg - StartRegister + 1] ELSE state.constants[reg]],
     valid |-> [reg \in Tracked |->
                   state.valid[reg] \/ reg \in StoredRegisters(StartRegister, Len(data))],
     sampleCounts |-> [reg \in Tracked |->
                          IF reg \in StoredRegisters(StartRegister, Len(data))
                          THEN state.sampleCounts[reg] + 1 ELSE state.sampleCounts[reg]]]

\* OnVertexShaderReleased.
OnVertexShaderReleased(states, shaderKey) ==
    IF shaderKey = 0 THEN states
    ELSE [key \in DOMAIN states \ {shaderKey} |-> states[key]]

\* -------------------------------------------------------------- the builder
\* TryBuildMatrixFromConstantUpdate: constantData is the sequence of 4-float
\* registers the pointer addresses, register startRegister first.
TryBuildMatrixFromConstantUpdate(constantData, startRegister, vector4fCount, baseRegister, rows, transposed) ==
    IF rows < 3 \/ rows > 4 \/ baseRegister < 0
       \/ startRegister > baseRegister
       \/ startRegister + vector4fCount < baseRegister + rows
    THEN [ok |-> FALSE, out |-> ZeroMatrix]
    ELSE LET offset == baseRegister - startRegister
             r(k) == constantData[offset + k]
             last == IF rows = 4 THEN r(4) ELSE <<0, 0, 0, Scale>>
             direct == Mat(r(1), r(2), r(3), last)
         IN  [ok |-> TRUE,
              out |-> IF transposed THEN TransposeMatrix(direct) ELSE direct]

\* ----------------------------------------------------------- the classifier
\* AnalyzeProjectionMatrixNumeric (model floats are always finite).
AnalyzeProjectionMatrixNumeric(m) ==
    LET kZeroEps == Ratio(2, 100)
        kPerspectiveEps == Ratio(5, 100)
        fov == 2 * Atanf(FDiv(Scale, Abs(El(m, 22))))
        fail == [ok |-> FALSE, valid |-> FALSE, fovRadians |-> 0, handedness |-> "Unknown"]
    IN  IF \/ Abs(El(m, 12)) > kZeroEps \/ Abs(El(m, 13)) > kZeroEps
           \/ Abs(El(m, 21)) > kZeroEps \/ Abs(El(m, 23)) > kZeroEps
           \/ Abs(El(m, 31)) > kZeroEps \/ Abs(El(m, 32)) > kZeroEps
        THEN fail
        ELSE IF Abs(El(m, 14)) > kZeroEps \/ Abs(El(m, 24)) > kZeroEps THEN fail
        ELSE IF Abs(Abs(El(m, 34)) - Scale) > kPerspectiveEps THEN fail
        ELSE IF Abs(El(m, 44)) > kPerspectiveEps THEN fail
        ELSE IF Abs(El(m, 11)) < Ratio(1, 1000) \/ Abs(El(m, 22)) < Ratio(1, 1000) THEN fail
        \* |x| < 0.0001 is x = 0 on the model's floats
        ELSE IF Abs(El(m, 33)) <= 0 \/ Abs(El(m, 43)) <= 0 THEN fail
        ELSE IF fov < Ratio(1, 100) \/ fov > Ratio(313, 100) THEN fail
        ELSE [ok |-> TRUE, valid |-> TRUE, fovRadians |-> fov,
              handedness |-> IF El(m, 34) >= 0 THEN "Left" ELSE "Right"]

\* LooksLikeViewStrict for a camera that must sit at the origin: the
\* translation row has to be zero as well.
LooksLikeViewAtOrigin(m) ==
    LET row0len == Sqrtf(Dot3(El(m, 11), El(m, 12), El(m, 13), El(m, 11), El(m, 12), El(m, 13)))
        row1len == Sqrtf(Dot3(El(m, 21), El(m, 22), El(m, 23), El(m, 21), El(m, 22), El(m, 23)))
        row2len == Sqrtf(Dot3(El(m, 31), El(m, 32), El(m, 33), El(m, 31), El(m, 32), El(m, 33)))
    IN  /\ Abs(row0len - Scale) <= Ratio(5, 100)
        /\ Abs(row1len - Scale) <= Ratio(5, 100)
        /\ Abs(row2len - Scale) <= Ratio(5, 100)
        /\ Abs(Dot3(El(m, 11), El(m, 12), El(m, 13), El(m, 21), El(m, 22), El(m, 23))) <= Ratio(5, 100)
        /\ Abs(Dot3(El(m, 11), El(m, 12), El(m, 13), El(m, 31), El(m, 32), El(m, 33))) <= Ratio(5, 100)
        /\ Abs(Dot3(El(m, 21), El(m, 22), El(m, 23), El(m, 31), El(m, 32), El(m, 33))) <= Ratio(5, 100)
        /\ Abs(El(m, 14)) <= Ratio(1, 100)
        /\ Abs(El(m, 24)) <= Ratio(1, 100)
        /\ Abs(El(m, 34)) <= Ratio(1, 100)
        /\ Abs(El(m, 44) - Scale) <= Ratio(1, 100)
        /\ Abs(Determinant3x3(m) - Scale) <= Ratio(1, 10)
        /\ Abs(El(m, 41)) <= Ratio(1, 100)
        /\ Abs(El(m, 42)) <= Ratio(1, 100)
        /\ Abs(El(m, 43)) <= Ratio(1, 100)

LooksLikeViewStrict(m) ==
    LET row0len == Sqrtf(Dot3(El(m, 11), El(m, 12), El(m, 13), El(m, 11), El(m, 12), El(m, 13)))
        row1len == Sqrtf(Dot3(El(m, 21), El(m, 22), El(m, 23), El(m, 21), El(m, 22), El(m, 23)))
        row2len == Sqrtf(Dot3(El(m, 31), El(m, 32), El(m, 33), El(m, 31), El(m, 32), El(m, 33)))
    IN  /\ Abs(row0len - Scale) <= Ratio(5, 100)
        /\ Abs(row1len - Scale) <= Ratio(5, 100)
        /\ Abs(row2len - Scale) <= Ratio(5, 100)
        /\ Abs(Dot3(El(m, 11), El(m, 12), El(m, 13), El(m, 21), El(m, 22), El(m, 23))) <= Ratio(5, 100)
        /\ Abs(Dot3(El(m, 11), El(m, 12), El(m, 13), El(m, 31), El(m, 32), El(m, 33))) <= Ratio(5, 100)
        /\ Abs(Dot3(El(m, 21), El(m, 22), El(m, 23), El(m, 31), El(m, 32), El(m, 33))) <= Ratio(5, 100)
        /\ Abs(El(m, 14)) <= Ratio(1, 100)
        /\ Abs(El(m, 24)) <= Ratio(1, 100)
        /\ Abs(El(m, 34)) <= Ratio(1, 100)
        /\ Abs(El(m, 44) - Scale) <= Ratio(1, 100)
        /\ Abs(Determinant3x3(m) - Scale) <= Ratio(1, 10)

LooksLikeProjectionStrict(m) == AnalyzeProjectionMatrixNumeric(m).ok

\* In the three operators that read g_config without changing anything, cfg
\* is the value of g_config.
IsTypicalProjectionWith(cfg, m, analysis) ==
    /\ analysis.ok
    /\ analysis.valid
    /\ ~(analysis.fovRadians < cfg.minFOV \/ analysis.fovRadians > cfg.maxFOV)
    /\ Abs(El(m, 14)) <= Ratio(5, 100)
    /\ Abs(El(m, 24)) <= Ratio(5, 100)
    /\ Abs(El(m, 44)) <= Ratio(5, 100)
    /\ Abs(Abs(El(m, 34)) - Scale) <= Ratio(5, 100)

IsTypicalProjectionMatrix(cfg, m) ==
    IsTypicalProjectionWith(cfg, m, AnalyzeProjectionMatrixNumeric(m))

HasPerspectiveComponent(m) ==
    Abs(El(m, 34)) > Ratio(1, 2) /\ Abs(El(m, 44)) < Ratio(1, 2)

IsAffineMatrixNoPerspective(m) ==
    /\ Abs(El(m, 14)) < Ratio(2, 100)
    /\ Abs(El(m, 24)) < Ratio(2, 100)
    /\ Abs(El(m, 34)) < Ratio(2, 100)
    /\ Abs(El(m, 44) - Scale) < Ratio(2, 100)

IsLikelyBoneTransform(m, rows, vectorCountInUpload, uploadStartReg, candidateBaseReg) ==
    LET r0 == Sqrtf(Dot3(El(m, 11), El(m, 12), El(m, 13), El(m, 11), El(m, 12), El(m, 13)))
        r1 == Sqrtf(Dot3(El(m, 21), El(m, 22), El(m, 23), El(m, 21), El(m, 22), El(m, 23)))
        r2 == Sqrtf(Dot3(El(m, 31), El(m, 32), El(m, 33), El(m, 31), El(m, 32), El(m, 33)))
        nearUnitRows == /\ Abs(r0 - Scale) < Ratio(25, 100)
                        /\ Abs(r1 - Scale) < Ratio(25, 100)
                        /\ Abs(r2 - Scale) < Ratio(25, 100)
        appearsInPaletteUpload ==
            /\ vectorCountInUpload >= 8
            /\ candidateBaseReg >= uploadStartReg
            /\ candidateBaseReg + rows <= uploadStartReg + vectorCountInUpload
    IN  IsAffineMatrixNoPerspective(m) /\ nearUnitRows /\ appearsInPaletteUpload

LooksLikeWorldStrict(m, rows, vectorCountInUpload, uploadStartReg, candidateBaseReg) ==
    /\ IsAffineMatrixNoPerspective(m)
    /\ ~LooksLikeViewStrict(m)
    \* |det| < 0.0001 is det = 0 on the model's floats
    /\ ~(Abs(Determinant3x3(m)) <= 0)
    /\ ~IsLikelyBoneTransform(m, rows, vectorCountInUpload, uploadStartReg, candidateBaseReg)

\* ClassifyMatrixDeterministic with the perspective-component test ahead of the
\* projection test.
ClassifyPerspectiveFirst(m, rows, vectorCountInUpload, uploadStartReg, candidateBaseReg) ==
    IF HasPerspectiveComponent(m) THEN "CombinedPerspective"
    ELSE IF LooksLikeProjectionStrict(m) THEN "Projection"
    ELSE IF LooksLikeViewStrict(m) THEN "View"
    ELSE IF LooksLikeWorldStrict(m, rows, vectorCountInUpload, uploadStartReg, candidateBaseReg)
    THEN "World"
    ELSE "None"

ClassifyMatrixDeterministic(m, rows, vectorCountInUpload, uploadStartReg, candidateBaseReg) ==
    IF LooksLikeProjectionStrict(m) THEN "Projection"
    ELSE IF HasPerspectiveComponent(m) THEN "CombinedPerspective"
    ELSE IF LooksLikeViewStrict(m) THEN "View"
    ELSE IF LooksLikeWorldStrict(m, rows, vectorCountInUpload, uploadStartReg, candidateBaseReg)
    THEN "World"
    ELSE "None"

\* The registers the pointer data + offset * 4 addresses.
From(data, offset) == SubSeq(data, offset + 1, Len(data))

\* The end of IsThreeRowPrefixOfPerspectiveMatrix, from the 4-row matrix
\* `full` built at the candidate's register.
IsPerspectiveEitherLayout(full, vectorCount, startReg, candidateBaseReg) ==
    \/ ClassifyMatrixDeterministic(full, 4, vectorCount, startReg, candidateBaseReg)
           \in {"Projection", "CombinedPerspective"}
    \/ ClassifyMatrixDeterministic(TransposeMatrix(full), 4, vectorCount, startReg,
                                   candidateBaseReg)
           \in {"Projection", "CombinedPerspective"}

\* A guard that lets every 3-row window through.
NeverThreeRowPrefix(data, startReg, vectorCount, candidateBaseReg, transposedLayout) == FALSE

IsThreeRowPrefixOfPerspectiveMatrix(data, startReg, vectorCount, candidateBaseReg, transposedLayout) ==
    IF vectorCount < 4 \/ candidateBaseReg < startReg THEN FALSE
    ELSE IF (candidateBaseReg - startReg) + 4 > vectorCount THEN FALSE
    ELSE LET built == TryBuildMatrixFromConstantUpdate(
                          From(data, candidateBaseReg - startReg), candidateBaseReg, 4,
                          candidateBaseReg, 4, transposedLayout)
         IN  /\ built.ok
             /\ IsPerspectiveEitherLayout(built.out, vectorCount, startReg,
                                          candidateBaseReg)

RECURSIVE CountStridedFrom(_, _, _, _, _, _, _)
\* One round of the loop of CountStridedCandidates, for the candidate at
\* `offset` built with success ok and classified cls.
CountStridedStep(data, startReg, vectorCount, strideRows, targetClass, offset, count, ok, cls) ==
    IF \/ ~ok
       \/ /\ strideRows = 3
          /\ cls \in {"View", "World"}
          /\ IsThreeRowPrefixOfPerspectiveMatrix(
                 data, startReg, vectorCount, startReg + offset, FALSE)
    THEN CountStridedFrom(data, startReg, vectorCount, strideRows, targetClass,
                          offset + strideRows, count)
    ELSE IF cls = targetClass /\ count + 1 > 1 THEN count + 1
    ELSE CountStridedFrom(data, startReg, vectorCount, strideRows, targetClass,
                          offset + strideRows,
                          IF cls = targetClass THEN count + 1 ELSE count)

\* The loop of CountStridedCandidates from `offset` on with `count` matches so far.
CountStridedFrom(data, startReg, vectorCount, strideRows, targetClass, offset, count) ==
    IF offset + strideRows > vectorCount THEN count
    ELSE LET built == TryBuildMatrixFromConstantUpdate(
                          From(data, offset), startReg + offset, strideRows,
                          startReg + offset, strideRows, FALSE)
         IN  CountStridedStep(
                 data, startReg, vectorCount, strideRows, targetClass, offset, count,
                 built.ok,
                 ClassifyMatrixDeterministic(
                     built.out, strideRows, vectorCount, startReg, startReg + offset))

CountStridedCandidates(data, startReg, vectorCount, strideRows, targetClass) ==
    CountStridedFrom(data, startReg, vectorCount, strideRows, targetClass, 0, 0)

\* The end of CrossValidateViewAgainstProjection, from vp.
ColumnScalesAgree(vp, knownProjection) ==
    LET sq(x) == FMul(x, x)
        p_c0 == Sqrtf(sq(El(knownProjection, 11)) + sq(El(knownProjection, 21))
                      + sq(El(knownProjection, 31)))
        p_c1 == Sqrtf(sq(El(knownProjection, 12)) + sq(El(knownProjection, 22))
                      + sq(El(knownProjection, 32)))
        vp_c0 == Sqrtf(sq(El(vp, 11)) + sq(El(vp, 21)) + sq(El(vp, 31)))
        vp_c1 == Sqrtf(sq(El(vp, 12)) + sq(El(vp, 22)) + sq(El(vp, 32)))
        kTol == Ratio(15, 100)
    IN  \* p < 1e-6 is p = 0 on the model's floats
        IF p_c0 <= 0 \/ p_c1 <= 0 THEN TRUE
        ELSE /\ FDiv(Abs(vp_c0 - p_c0), p_c0) < kTol
             /\ FDiv(Abs(vp_c1 - p_c1), p_c1) < kTol

\* CrossValidateViewAgainstProjection that lets every candidate pass.
CrossValidateNothing(candidateView, knownProjection) == TRUE

CrossValidateViewAgainstProjection(candidateView, knownProjection) ==
    ColumnScalesAgree(MultiplyMatrix(candidateView, knownProjection), knownProjection)

\* ------------------------------------------------------------ decomposition
Max(a, b) == IF a >= b THEN a ELSE b

CreateProjectionMatrix(fovY, aspect, zNear, zFar) ==
    LET yScale == FDiv(Scale, Tanf(fovY \div 2))
        xScale == FDiv(yScale, aspect)
    IN  Mat(<<xScale, 0, 0, 0>>,
            <<0, yScale, 0, 0>>,
            <<0, 0, FDiv(zFar, zFar - zNear), Scale>>,
            <<0, 0, FDiv(FMul(-zNear, zFar), zFar - zNear), 0>>)

\* CreateProjectionMatrixWithHandedness without the right-handed branch.
CreateProjectionMatrixLeftOnly(fovY, aspect, zNear, zFar, handedness) ==
    CreateProjectionMatrix(fovY, aspect, zNear, zFar)

CreateProjectionMatrixWithHandedness(fovY, aspect, zNear, zFar, handedness) ==
    LET out == CreateProjectionMatrix(fovY, aspect, zNear, zFar)
    IN  IF handedness = "Right"
        THEN [out EXCEPT ![11] = FDiv(zFar, zNear - zFar),
                         ![12] = -Scale,
                         ![15] = FDiv(FMul(zNear, zFar), zNear - zFar)]
        ELSE out

\* A row of three floats divided by its length len; len > 1e-6 is len > 0 on
\* the model's floats.
DivideRow(r, len) ==
    IF len > 0 THEN <<FDiv(r[1], len), FDiv(r[2], len), FDiv(r[3], len)>> ELSE r

NormalizeRow(r) == DivideRow(r, Sqrtf(Dot3(r[1], r[2], r[3], r[1], r[2], r[3])))

\* The row r less dot times the row r0.
RemoveComponent(r, r0, dot) ==
    <<r[1] - FMul(dot, r0[1]), r[2] - FMul(dot, r0[2]), r[3] - FMul(dot, r0[3])>>

\* The end of OrthonormalizeViewMatrix, from the rows r0 and r1.
OrthonormalizeFromRows(view, r0, r1) ==
    LET origTx == El(view, 41)
        origTy == El(view, 42)
        origTz == El(view, 43)
        r2x == FMul(r0[2], r1[3]) - FMul(r0[3], r1[2])
        r2y == FMul(r0[3], r1[1]) - FMul(r0[1], r1[3])
        r2z == FMul(r0[1], r1[2]) - FMul(r0[2], r1[1])
    IN  Mat(r0 \o <<0>>,
            r1 \o <<0>>,
            <<r2x, r2y, r2z, 0>>,
            <<Dot3(origTx, origTy, origTz, r0[1], r0[2], r0[3]),
              Dot3(origTx, origTy, origTz, r1[1], r1[2], r1[3]),
              Dot3(origTx, origTy, origTz, r2x, r2y, r2z),
              Scale>>)

\* ... from the row r0.
OrthonormalizeFromRow0(view, r0) ==
    OrthonormalizeFromRows(
        view, r0,
        NormalizeRow(RemoveComponent(
            <<El(view, 21), El(view, 22), El(view, 23)>>, r0,
            Dot3(El(view, 21), El(view, 22), El(view, 23), r0[1], r0[2], r0[3]))))

OrthonormalizeViewMatrix(view) ==
    OrthonormalizeFromRow0(view, NormalizeRow(<<El(view, 11), El(view, 12), El(view, 13)>>))

NoAnalysis == [valid |-> FALSE, fovRadians |-> 0, handedness |-> "Unknown"]

NoProjection == [ok |-> FALSE, projection |-> ZeroMatrix, analysis |-> NoAnalysis]

\* The end of TryExtractProjectionFromCombined, from fov.
ExtractWithFov(cfg, extractionMatrix, forceDecomposition, sx, sy, fov) ==
    LET aspect == FDiv(sy, sx)
        handedness == IF Determinant3x3(extractionMatrix) < 0 THEN "Right" ELSE "Left"
        \* 0.0001 is below the model's float resolution
        nearZ == Max(0, cfg.experimentalCustomProjectionAutoNearZ)
        farZ == Max(nearZ + Ratio(1, 1000), cfg.experimentalCustomProjectionAutoFarZ)
    IN  IF ~forceDecomposition /\ (fov < Ratio(1, 100) \/ fov > Ratio(313, 100))
        THEN NoProjection
        ELSE [ok |-> TRUE,
              projection |-> CreateProjectionMatrixWithHandedness(
                                 fov, Max(Ratio(1, 10), aspect), nearZ, farZ, handedness),
              analysis |-> [valid |-> TRUE, fovRadians |-> fov, handedness |-> handedness]]

\* ... from sx and sy; s < 1e-5 is s = 0 on the model's floats.
ExtractWithScales(cfg, extractionMatrix, forceDecomposition, sx, sy) ==
    IF sx <= 0 \/ sy <= 0 THEN NoProjection
    ELSE ExtractWithFov(cfg, extractionMatrix, forceDecomposition, sx, sy,
                        2 * Atanf(FDiv(Scale, sy)))

\* ... from extractionMatrix.
ExtractFromMatrix(cfg, extractionMatrix, forceDecomposition) ==
    LET e(rc) == El(extractionMatrix, rc)
    IN  IF ~IsTypicalProjectionMatrix(cfg, extractionMatrix) THEN NoProjection
        ELSE ExtractWithScales(
                 cfg, extractionMatrix, forceDecomposition,
                 Sqrtf(Dot3(e(11), e(12), e(13), e(11), e(12), e(13))),
                 Sqrtf(Dot3(e(21), e(22), e(23), e(21), e(22), e(23))))

\* ... from the inverse of the World matrix, worldInv = [ok, out].
ExtractWithWorldInverse(cfg, combined, worldInv, forceDecomposition) ==
    IF ~worldInv.ok THEN NoProjection
    ELSE ExtractFromMatrix(cfg, MultiplyMatrix(worldInv.out, combined), forceDecomposition)

\* TryExtractProjectionFromCombined: [ok, projection, analysis].
TryExtractProjectionFromCombined(cfg, combined, world, worldAvailable, forceDecomposition) ==
    IF worldAvailable
    THEN ExtractWithWorldInverse(cfg, combined, InvertMatrix4x4Deterministic(world),
                                 forceDecomposition)
    ELSE IF ~IsTypicalProjectionMatrix(cfg, combined) THEN NoProjection
    ELSE ExtractFromMatrix(cfg, combined, forceDecomposition)

NoDecomposition == [ok |-> FALSE, world |-> ZeroMatrix, view |-> ZeroMatrix,
                    projection |-> ZeroMatrix, analysis |-> NoAnalysis]

\* The end of TryDecomposeCombinedMVP, from the inverse of the projection.
DecomposeWithProjectionInverse(world, viewProjection, extracted, projectionInv) ==
    IF ~projectionInv.ok THEN NoDecomposition
    ELSE [ok |-> TRUE,
          world |-> world,
          view |-> OrthonormalizeViewMatrix(
                       MultiplyMatrix(projectionInv.out, viewProjection)),
          projection |-> extracted.projection,
          analysis |-> extracted.analysis]

\* ... from the extracted projection, extracted = [ok, projection, analysis].
DecomposeWithProjection(world, viewProjection, extracted) ==
    IF ~extracted.ok THEN NoDecomposition
    ELSE DecomposeWithProjectionInverse(
             world, viewProjection, extracted,
             InvertMatrix4x4Deterministic(extracted.projection))

\* ... from world and viewProjection.
DecomposeViewProjection(cfg, world, viewProjection, worldOptional, worldAvailable) ==
    DecomposeWithProjection(
        world, viewProjection,
        TryExtractProjectionFromCombined(cfg, viewProjection, worldOptional, worldAvailable,
                                         cfg.combinedMVPForceDecomposition))

\* ... from the inverse of the World matrix, worldInv = [ok, out].
DecomposeWithWorldInverse(cfg, mvp, worldOptional, worldInv) ==
    IF ~worldInv.ok THEN NoDecomposition
    ELSE DecomposeViewProjection(cfg, worldOptional, MultiplyMatrix(mvp, worldInv.out),
                                 worldOptional, TRUE)

\* TryDecomposeCombinedMVP: [ok, world, view, projection, analysis].
TryDecomposeCombinedMVP(cfg, mvp, worldOptional, worldAvailable) ==
    IF worldAvailable
    THEN DecomposeWithWorldInverse(cfg, mvp, worldOptional,
                                   InvertMatrix4x4Deterministic(worldOptional))
    ELSE DecomposeViewProjection(cfg, CreateIdentityMatrix, mvp, worldOptional, FALSE)

g_probeTransposedLayouts == TRUE
g_probeInverseView == TRUE

\* ClassifyMatrixDeterministic for a candidate of the window w = [data,
\* StartRegister, Vector4fCount, rows, baseReg] of the scan.
ClassifyInWindow(w, m) ==
    ClassifyMatrixDeterministic(m, w.rows, w.Vector4fCount, w.StartRegister, w.baseReg)

\* Whether the rotation rows of mat are orthonormal (the inverse-view probe).
HasOrthonormalRows(mat) ==
    LET e(rc) == El(mat, rc)
        row0Len == Sqrtf(Dot3(e(11), e(12), e(13), e(11), e(12), e(13)))
        row1Len == Sqrtf(Dot3(e(21), e(22), e(23), e(21), e(22), e(23)))
        row2Len == Sqrtf(Dot3(e(31), e(32), e(33), e(31), e(32), e(33)))
    IN  /\ Abs(row0Len - Scale) < Ratio(5, 100)
        /\ Abs(row1Len - Scale) < Ratio(5, 100)
        /\ Abs(row2Len - Scale) < Ratio(5, 100)
        /\ Abs(Dot3(e(11), e(12), e(13), e(21), e(22), e(23))) < Ratio(5, 100)
        /\ Abs(Dot3(e(11), e(12), e(13), e(31), e(32), e(33))) < Ratio(5, 100)
        /\ Abs(Dot3(e(21), e(22), e(23), e(31), e(32), e(33))) < Ratio(5, 100)

\* What one window of the scan hands to updateFromClassification: [ok, mat,
\* transposed, finalClass], with cls = ClassifyMatrixDeterministic(mat, ...) and
\* projectionInfo = AnalyzeProjectionMatrixNumeric(mat) that
\* updateFromClassification computes from mat. The steps, last first:
\* ... once the inverse-view probe has decided (useInverse),
ScanProbed(w, ok, mat, transposed, finalClass) ==
    [ok |-> ok,
     mat |-> mat,
     transposed |-> transposed,
     finalClass |-> finalClass,
     cls |-> ClassifyInWindow(w, mat),
     projectionInfo |-> AnalyzeProjectionMatrixNumeric(mat)]

ScanInverseProbe(w, ok, mat, transposed, cls, inverseView, useInverse) ==
    ScanProbed(w, ok, IF useInverse THEN inverseView ELSE mat, transposed,
               IF useInverse THEN "View" ELSE cls)

\* ... once the 3-row prefix guard has left the class cls and the rigid
\* inverse inverseView of mat is computed,
ScanGuarded(w, ok, mat, transposed, cls, inverseView) ==
    ScanInverseProbe(w, ok, mat, transposed, cls, inverseView,
                     /\ cls = "None" /\ g_probeInverseView /\ w.rows = 4
                     /\ HasOrthonormalRows(mat)
                     /\ ClassifyInWindow(w, inverseView) = "View")

\* ... once mat, in the layout chosen, has the class cls,
ScanClassified(w, ok, mat, transposed, cls) ==
    ScanGuarded(w, ok, mat, transposed,
                IF /\ w.rows = 3
                   /\ cls \in {"View", "World"}
                   /\ IsThreeRowPrefixOfPerspectiveMatrix(
                          w.data, w.StartRegister, w.Vector4fCount, w.baseReg, transposed)
                THEN "None" ELSE cls,
                InvertSimpleRigidView(mat))

\* ... once the transposed-layout probe has decided (transposed),
ScanLayout(w, built, t, transposed) ==
    IF transposed
    THEN ScanClassified(w, built.ok, t, TRUE, ClassifyInWindow(w, t))
    ELSE ScanClassified(w, built.ok, built.out, FALSE, ClassifyInWindow(w, built.out))

\* ... once the matrix is built and its transpose t is at hand.
ScanBuilt(w, built, t) ==
    ScanLayout(w, built, t,
               /\ ClassifyInWindow(w, built.out) = "None"
               /\ g_probeTransposedLayouts
               /\ ClassifyInWindow(w, t) # "None")

ScanWindow(w) ==
    LET built == TryBuildMatrixFromConstantUpdate(
                     From(w.data, w.baseReg - w.StartRegister), w.baseReg, w.rows,
                     w.baseReg, w.rows, FALSE)
    IN  ScanBuilt(w, built, TransposeMatrix(built.out))

ScanCandidate(data, StartRegister, rows, offset) ==
    ScanWindow([data |-> data, StartRegister |-> StartRegister,
                Vector4fCount |-> Len(data), rows |-> rows,
                baseReg |-> StartRegister + offset])

\* suppressViewFromUpload / suppressWorldFromUpload of an upload.
SuppressFromUpload(data, StartRegister, Vector4fCount, targetClass) ==
    /\ Vector4fCount >= 12
    /\ \/ CountStridedCandidates(data, StartRegister, Vector4fCount, 4, targetClass) > 2
       \/ CountStridedCandidates(data, StartRegister, Vector4fCount, 3, targetClass) > 2

\* ------------------------------------------------------------------ inputs
\* Matrices the game uploads, entries in units of 1/Scale.
ViewA == Mat(<<1000, 0, 0, 0>>, <<0, 1000, 0, 0>>, <<0, 0, 1000, 0>>, <<0, 0, 5000, 1000>>)
ViewB == Mat(<<0, 1000, 0, 0>>, <<-1000, 0, 0, 0>>, <<0, 0, 1000, 0>>, <<0, 0, 3000, 1000>>)
ProjA == Mat(<<1300, 0, 0, 0>>, <<0, 1700, 0, 0>>, <<0, 0, 1000, 1000>>, <<0, 0, -100, 0>>)
WorldA == Mat(<<1000, 0, 0, 0>>, <<0, 1000, 0, 0>>, <<0, 0, 2000, 0>>, <<0, 0, 0, 1000>>)
\* A rotation about the z axis with no translation.
ViewC == Mat(<<0, 1000, 0, 0>>, <<-1000, 0, 0, 0>>, <<0, 0, 1000, 0>>, <<0, 0, 0, 1000>>)
\* WorldA * ProjA * WorldA: the product the decomposition takes apart.
CombinedA == Mat(<<1300, 0, 0, 0>>, <<0, 1700, 0, 0>>, <<0, 0, 4000, 2000>>, <<0, 0, -200, 0>>)
\* WorldA * ProjNarrow * WorldA: the same product for a field of view of 0.05.
CombinedNarrow == Mat(<<1300, 0, 0, 0>>, <<0, 40000, 0, 0>>, <<0, 0, 4000, 2000>>, <<0, 0, -200, 0>>)
\* ... and for one of 0.008, below the decomposer's own bound of 0.01.
CombinedNeedle == Mat(<<1300, 0, 0, 0>>, <<0, 250000, 0, 0>>, <<0, 0, 4000, 2000>>, <<0, 0, -200, 0>>)
\* A perspective matrix no held World turns into a projection.
CombinedB == Mat(<<1300, 0, 0, 0>>, <<0, 1700, 0, 0>>, <<0, 0, 1000, 700>>, <<0, 0, -100, 0>>)
\* A mirror: affine with unit rows, and no rotation.
MirrorA == Mat(<<-1000, 0, 0, 0>>, <<0, 1000, 0, 0>>, <<0, 0, 1000, 0>>, <<0, 0, 0, 1000>>)
\* A right-handed projection, as CreateProjectionMatrixWithHandedness builds it.
ProjR == CreateProjectionMatrixWithHandedness(Scale, Ratio(4, 3), Ratio(1, 10), 1000 * Scale, "Right")
\* A rotation by a quarter turn about the x axis with the translation (1, -1, 0).
ViewD == Mat(<<1000, 0, 0, 0>>, <<0, 0, 1000, 0>>, <<0, -1000, 0, 0>>, <<1000, -1000, 0, 1000>>)
\* The cameras of a game that uploads View * Projection in one matrix: the
\* views, the projections and their products.
CameraViews == {ViewC, ViewD}
CameraProjections == {ProjA, ProjR}
ViewProjections == { MultiplyMatrix(R, P) : R \in CameraViews, P \in CameraProjections }

Rows(m) == << SubSeq(m, 1, 4), SubSeq(m, 5, 8), SubSeq(m, 9, 12), SubSeq(m, 13, 16) >>

RECURSIVE Repeat(_, _)
Repeat(rows, n) == IF n = 0 THEN << >> ELSE rows \o Repeat(rows, n - 1)

\* The largest translation component, in whole units, of the rigid views below.
MaxTranslate == 1

\* A rigid view: row i of the rotation is the axis p[i] with the sign s[i], the
\* translation is t, the last column is (0, 0, 0, 1).
AxisRow(axis, sign) == [k \in 1..4 |-> IF k = axis THEN sign * Scale ELSE 0]

RigidView(p, s, t) ==
    Mat(AxisRow(p[1], s[1]), AxisRow(p[2], s[2]), AxisRow(p[3], s[3]),
        << t[1] * Scale, t[2] * Scale, t[3] * Scale, Scale >>)

\* Every axis-aligned proper rotation (determinant +1) with every translation
\* of integer components up to MaxTranslate.
RigidViews ==
    { m \in { RigidView(p, s, t) :
                 p \in { q \in [1..3 -> 1..3] : \A i, j \in 1..3 : q[i] = q[j] => i = j },
                 s \in [1..3 -> {-1, 1}],
                 t \in [1..3 -> (-MaxTranslate)..MaxTranslate] } :
          Determinant3x3(m) = Scale }

\* Number of 4-register blocks of the bone-palette upload.
PaletteBlocks == 8

\* A projection of 0.05 rad vertical field of view, below the default minFOV.
ProjNarrow == Mat(<<1300, 0, 0, 0>>, <<0, 40000, 0, 0>>, <<0, 0, 1000, 1000>>, <<0, 0, -100, 0>>)

\* Uploads with several windows of one class:
\*  - a World in three registers at the start, a zero register, then the same
\*    World in four registers;
\*  - a View, a Projection and a World, four registers each;
\*  - a Projection whose fourth row carries an x offset of 100;
\*  - a View with 0.01 in its fourth column, which that Projection takes off
\*    the column scale it should have, followed by a View it agrees with;
\*  - the narrow projection.
ScanUploads ==
    { SubSeq(Rows(WorldA), 1, 3) \o << <<0, 0, 0, 0>> >> \o Rows(WorldA),
      Rows(ViewA) \o Rows(ProjA) \o Rows(WorldA),
      Rows(Mat(<<1300, 0, 0, 0>>, <<0, 1700, 0, 0>>, <<0, 0, 1000, 1000>>,
               <<100000, 0, -100, 0>>)),
      Rows(Mat(<<1000, 0, 0, 10>>, <<0, 1000, 0, 0>>, <<0, 0, 1000, 0>>,
               <<0, 0, 5000, 1000>>)) \o Rows(ViewB),
      Rows(ProjNarrow) }

\* The uploads the game makes: the register rows of one call.
Uploads ==
    ScanUploads \cup
    { Rows(ViewA), Rows(ViewB), Rows(ProjA), Rows(WorldA),
      Rows(CombinedA), Rows(CombinedB), Rows(CombinedNarrow), Rows(CombinedNeedle),
      Rows(ViewC) \o Rows(CombinedA),
      Repeat(Rows(ViewB), PaletteBlocks) }
    \cup { Rows(m) : m \in CameraViews \cup CameraProjections \cup ViewProjections }

StartRegisters == {0, 4}

\* Start registers next to the end of the register file.
TopRegisters == {kMaxConstantRegisters - 4, kMaxConstantRegisters - 2}

Shaders == 0..MaxShader

DefaultConfig ==
    [viewMatrixRegister |-> -1, projMatrixRegister |-> -1, worldMatrixRegister |-> -1,
     minFOV |-> Ratio(1, 10), maxFOV |-> Ratio(25, 10),
     emitFixedFunctionTransforms |-> TRUE,
     autoDetectMatrices |-> FALSE,
     enableCombinedMVP |-> FALSE,
     combinedMVPRequireWorld |-> FALSE,
     combinedMVPAssumeIdentityWorld |-> TRUE,
     combinedMVPForceDecomposition |-> FALSE,
     setTransformBypassProxyWhenGameProvides |-> FALSE,
     setTransformRoundTripCompatibilityMode |-> FALSE,
     enableMemoryScanner |-> FALSE,
     mgrrUseAutoProjectionWhenC4Invalid |-> FALSE,
     experimentalCustomProjectionAutoNearZ |-> Ratio(1, 10),
     experimentalCustomProjectionAutoFarZ |-> 1000 * Scale]

\* The configurations LoadConfig may leave: for the decomposition ...
Configs ==
    { DefaultConfig,
      [DefaultConfig EXCEPT !.enableCombinedMVP = TRUE] }

\* ... and for the draw-time emission.
EmitConfigs ==
    { DefaultConfig,
      [DefaultConfig EXCEPT !.emitFixedFunctionTransforms = FALSE],
      [DefaultConfig EXCEPT !.setTransformBypassProxyWhenGameProvides = TRUE] }

\* ... and for the uploads under a game profile.
ProfileConfigs ==
    { DefaultConfig,
      [DefaultConfig EXCEPT !.autoDetectMatrices = TRUE] }

\* ... and for the decomposition's own options.
DecomposeConfigs ==
    { [DefaultConfig EXCEPT !.enableCombinedMVP = TRUE,
                            !.combinedMVPRequireWorld = requireWorld,
                            !.combinedMVPAssumeIdentityWorld = assumeIdentityWorld,
                            !.combinedMVPForceDecomposition = forceDecomposition] :
          requireWorld \in BOOLEAN, assumeIdentityWorld \in BOOLEAN,
          forceDecomposition \in BOOLEAN }

\* ... and for the MetalGearRising profile.
MgrConfigs ==
    { DefaultConfig,
      [DefaultConfig EXCEPT !.mgrrUseAutoProjectionWhenC4Invalid = TRUE],
      [DefaultConfig EXCEPT !.setTransformRoundTripCompatibilityMode = TRUE] }

\* ... and with the memory scanner started from Present
\* (EnableMemoryScanner=1, MemoryScannerIntervalSec > 0).
ScannerConfigs == { [DefaultConfig EXCEPT !.enableMemoryScanner = TRUE] }

Profiles == {"None", "DevilMayCry4", "Barnyard", "MetalGearRising"}

Slots == {"World", "View", "Projection", "MVP"}

NoSource == [valid |-> FALSE, manual |-> FALSE, shaderKey |-> 0, baseRegister |-> 0,
             rows |-> 0, transposed |-> FALSE, sourceLabel |-> "",
             extractedFromRegister |-> 0]

NoDebug == [registerBase |-> -1, strategy |-> "None", succeeded |-> FALSE,
            fovRadians |-> 0, handedness |-> "Unknown"]

NoCamera == [view |-> ZeroMatrix, projection |-> ZeroMatrix, world |-> ZeroMatrix,
             mvp |-> ZeroMatrix, hasView |-> FALSE, hasProjection |-> FALSE,
             hasWorld |-> FALSE, hasMVP |-> FALSE]

\* The same function with its values computed once.
Tabulate(f) == f @@ f

\* The same set with its elements computed once.
Enumerate(S) == DOMAIN Tabulate([x \in S |-> TRUE])

\* The candidates of every window of every upload, and the suppression flags
\* of every upload: both depend on the uploaded registers alone.
ScanTable ==
    Tabulate([data \in Uploads |-> Tabulate([StartRegister \in StartRegisters \cup TopRegisters |->
        Tabulate([rows \in {3, 4} |->
            Tabulate([offset \in 0..(Len(data) - rows) |->
                ScanCandidate(data, StartRegister, rows, offset)])])])])

SuppressTable ==
    Tabulate([data \in Uploads |-> Tabulate([StartRegister \in StartRegisters \cup TopRegisters |->
        Tabulate([targetClass \in {"View", "World"} |->
            SuppressFromUpload(data, StartRegister, Len(data), targetClass)])])])

\* The matrices the scan classifies CombinedPerspective, and the World
\* matrices the device can hold when it does.
CombinedCandidates ==
    UNION { { ScanTable[data][StartRegister][4][offset].mat :
                  offset \in { o \in 0..(Len(data) - 4) :
                      ScanTable[data][StartRegister][4][o].cls = "CombinedPerspective" } } :
            data \in Uploads, StartRegister \in StartRegisters }
HeldWorlds ==
    {CreateIdentityMatrix}
    \cup UNION { { ScanTable[data][StartRegister][rows][offset].mat :
                      offset \in { o \in 0..(Len(data) - rows) :
                          ScanTable[data][StartRegister][rows][o].cls = "World" } } :
                  data \in Uploads, StartRegister \in StartRegisters, rows \in {3, 4} }

DecomposeTable ==
    Tabulate([cfg \in Configs \cup DecomposeConfigs |-> Tabulate([mvp \in CombinedCandidates |->
        Tabulate([world \in HeldWorlds |-> Tabulate([worldAvailable \in BOOLEAN |->
            TryDecomposeCombinedMVP(cfg, mvp, world, worldAvailable)])])])])

\* TryDecomposeCombinedMVP under the configuration cfg, read from the table.
Decompose(cfg, mvp, world, worldAvailable) ==
    DecomposeTable[cfg][mvp][world][worldAvailable]

\* --------------------------------------------------- published camera state
\* The handlers below thread one record st through their steps:
\*   st.dev  the device members          st.cam  g_cameraMatrices
\*   st.src  g_matrixSources             st.dbg  g_combinedMvpDebug
\*   st.ovr  slotResolvedByOverride      st.res  slotResolvedStructurally
\* (the two locals of SetVertexShaderConstantF, as the sets of slots set true).
\* st.pub collects the values g_cameraMatrices has had whenever
\* g_cameraMatricesMutex was free: at the start and after every Store call.

\* The lock_guard of a Store function goes out of scope.
ReleaseMutex(st) == [st EXCEPT !.pub = @ \cup {st.cam}]

UpdateMatrixSource(st, slot, shaderKey, baseRegister, rows, transposed, manual, sourceLabel, extractedFromRegister) ==
    [st EXCEPT !.src[slot] =
        [valid |-> TRUE, manual |-> manual, shaderKey |-> shaderKey,
         baseRegister |-> baseRegister, rows |-> rows, transposed |-> transposed,
         sourceLabel |-> sourceLabel,
         extractedFromRegister |-> IF extractedFromRegister >= 0
                                   THEN extractedFromRegister ELSE baseRegister]]

StoreViewMatrix(st, view, shaderKey, baseRegister, rows, transposed, manual, sourceLabel, extractedFromRegister) ==
    UpdateMatrixSource(ReleaseMutex([st EXCEPT !.cam.view = view, !.cam.hasView = TRUE]),
                       "View", shaderKey, baseRegister, rows, transposed, manual,
                       sourceLabel, extractedFromRegister)

StoreProjectionMatrix(st, projection, shaderKey, baseRegister, rows, transposed, manual, sourceLabel, extractedFromRegister) ==
    UpdateMatrixSource(ReleaseMutex([st EXCEPT !.cam.projection = projection, !.cam.hasProjection = TRUE]),
                       "Projection", shaderKey, baseRegister, rows, transposed, manual,
                       sourceLabel, extractedFromRegister)

StoreWorldMatrix(st, world, shaderKey, baseRegister, rows, transposed, manual, sourceLabel, extractedFromRegister) ==
    UpdateMatrixSource(ReleaseMutex([st EXCEPT !.cam.world = world, !.cam.hasWorld = TRUE]),
                       "World", shaderKey, baseRegister, rows, transposed, manual,
                       sourceLabel, extractedFromRegister)

StoreMVPMatrix(st, mvp, shaderKey, baseRegister, rows, transposed, manual, sourceLabel, extractedFromRegister) ==
    UpdateMatrixSource(ReleaseMutex([st EXCEPT !.cam.mvp = mvp, !.cam.hasMVP = TRUE]),
                       "MVP", shaderKey, baseRegister, rows, transposed, manual,
                       sourceLabel, extractedFromRegister)

\* ------------------------------------------------ SetVertexShaderConstantF
\* The lambda tryExplicitRegisterOverride for one slot (no profile active).
TryExplicitRegisterOverride(st, slot, configuredRegister, data, StartRegister, Vector4fCount, shaderKey) ==
    LET b4 == TryBuildMatrixFromConstantUpdate(data, StartRegister, Vector4fCount,
                                               configuredRegister, 4, FALSE)
        b3 == TryBuildMatrixFromConstantUpdate(data, StartRegister, Vector4fCount,
                                               configuredRegister, 3, FALSE)
        rows == IF b4.ok THEN 4 ELSE 3
        mat == IF b4.ok THEN b4.out ELSE b3.out
        s1 == [st EXCEPT !.ovr = @ \cup {slot}]
    IN  IF configuredRegister < 0 \/ slot \in st.ovr THEN st
        ELSE IF ~b4.ok /\ ~b3.ok THEN st
        ELSE IF slot = "World"
        THEN StoreWorldMatrix(
                 [s1 EXCEPT !.dev.m_currentWorld = mat, !.dev.m_hasWorld = TRUE,
                            !.dev.m_worldLastFrame = g_frameCount],
                 mat, shaderKey, configuredRegister, rows, FALSE, TRUE,
                 "explicit register override", -1)
        ELSE IF slot = "View"
        THEN StoreViewMatrix(
                 [s1 EXCEPT !.dev.m_currentView = mat, !.dev.m_hasView = TRUE,
                            !.dev.m_viewLastFrame = g_frameCount],
                 mat, shaderKey, configuredRegister, rows, FALSE, TRUE,
                 "explicit register override", -1)
        ELSE StoreProjectionMatrix(
                 [s1 EXCEPT !.dev.m_currentProj = mat, !.dev.m_hasProj = TRUE,
                            !.dev.m_projLastFrame = g_frameCount],
                 mat, shaderKey, configuredRegister, rows, FALSE, TRUE,
                 "explicit register override", -1)

\* The strategy tryHandleCombinedMVP selects before it decomposes.
SelectStrategy(worldAvailable) ==
    IF worldAvailable THEN "WorldAndMVP"
    ELSE IF g_config.combinedMVPRequireWorld THEN "WorldRequiredNoWorld"
    ELSE IF g_config.combinedMVPAssumeIdentityWorld THEN "MVPOnly"
    ELSE "Failed"

\* FinishCombinedMVP taking the View lock for the combined window's source
\* when it publishes.
FinishCombinedMVPTakesLock(s1, d, strategy, baseReg, rows, transposed, shaderKey) ==
    IF ~d.ok
    THEN [s1 EXCEPT !.dbg.strategy = "Failed"]
    ELSE StoreProjectionMatrix(
             StoreViewMatrix(
                 StoreWorldMatrix(
                     [s1 EXCEPT !.dbg.strategy = strategy, !.dbg.succeeded = TRUE,
                                !.dev.m_currentWorld = d.world,
                                !.dev.m_currentView = d.view,
                                !.dev.m_currentProj = d.projection,
                                !.dev.m_hasWorld = TRUE, !.dev.m_hasView = TRUE,
                                !.dev.m_hasProj = TRUE,
                                !.dev.m_worldLastFrame = g_frameCount,
                                !.dev.m_viewLastFrame = g_frameCount,
                                !.dev.m_projLastFrame = g_frameCount,
                                !.dev.m_viewLockedShader = shaderKey,
                                !.dev.m_viewLockedRegister = baseReg,
                                !.res = @ \cup {"World", "View", "Projection"}],
                     d.world, shaderKey, baseReg, rows, transposed, FALSE, "", baseReg),
                 d.view, shaderKey, baseReg, rows, transposed, FALSE, "", baseReg),
             d.projection, shaderKey, baseReg, rows, transposed, FALSE, "", baseReg)

\* FinishCombinedMVP publishing the World before it looks at the outcome of
\* the decomposition.
FinishCombinedMVPWorldFirst(s1, d, strategy, baseReg, rows, transposed, shaderKey) ==
    IF ~d.ok
    THEN [s1 EXCEPT !.dbg.strategy = "Failed",
                    !.dev.m_currentWorld = d.world, !.dev.m_hasWorld = TRUE,
                    !.dev.m_worldLastFrame = g_frameCount]
    ELSE [s1 EXCEPT !.dbg.strategy = strategy, !.dbg.succeeded = TRUE]

\* The publication of a successful decomposition d by tryHandleCombinedMVP,
\* from the state s1 the attempt starts from, up to and including the first
\* stores of its three Store calls (World, View, Projection, in that order);
\* each Store call takes g_cameraMatricesMutex for itself.
PublishDecomposition(s1, d, baseReg, rows, transposed, shaderKey, stores) ==
    LET s2 == [s1 EXCEPT
                  !.dev.m_currentWorld = d.world,
                  !.dev.m_currentView = d.view,
                  !.dev.m_currentProj = d.projection,
                  !.dev.m_hasWorld = TRUE, !.dev.m_worldLastFrame = g_frameCount,
                  !.dev.m_hasView = TRUE, !.dev.m_viewLastFrame = g_frameCount,
                  !.dev.m_hasProj = TRUE, !.dev.m_projLastFrame = g_frameCount,
                  !.dev.m_projDetectedFrame = g_frameCount,
                  !.res = @ \cup {"World", "View", "Projection"}]
        s3 == StoreWorldMatrix(s2, d.world, shaderKey, baseReg, rows, transposed,
                               FALSE, "combined MVP decomposition world", baseReg)
        s4 == StoreViewMatrix(s3, d.view, shaderKey, baseReg, rows, transposed,
                              FALSE, "combined MVP decomposition view", baseReg)
        s5 == StoreProjectionMatrix(s4, d.projection, shaderKey, baseReg, rows,
                                    transposed, FALSE,
                                    "combined MVP decomposition projection", baseReg)
    IN  IF stores = 0 THEN s2 ELSE IF stores = 1 THEN s3 ELSE IF stores = 2 THEN s4 ELSE s5

\* The end of tryHandleCombinedMVP, from the decomposition d = [ok, world,
\* view, projection, analysis]; s1 is the state the attempt starts from.
FinishCombinedMVP(s1, d, strategy, baseReg, rows, transposed, shaderKey) ==
    LET s5 == PublishDecomposition(s1, d, baseReg, rows, transposed, shaderKey, 3)
    IN  IF ~d.ok
        THEN [s1 EXCEPT !.dbg.strategy = "Failed"]
        ELSE [s5 EXCEPT !.dbg.strategy = strategy, !.dbg.succeeded = TRUE,
                        !.dbg.fovRadians = d.analysis.fovRadians,
                        !.dbg.handedness = d.analysis.handedness]

\* tryHandleCombinedMVP without its enableCombinedMVP gate.
TryHandleCombinedMVPAlways(st, combinedMvp, baseReg, rows, transposed, shaderKey) ==
    FinishCombinedMVP(
        StoreMVPMatrix(st, combinedMvp, shaderKey, baseReg, rows, transposed, FALSE,
                       "deterministic structural combined MVP", baseReg),
        Decompose(g_config, combinedMvp, st.dev.m_currentWorld, st.dev.m_hasWorld),
        SelectStrategy(st.dev.m_hasWorld), baseReg, rows, transposed, shaderKey)

\* Whether tryHandleCombinedMVP, having chosen the strategy, goes on to call
\* TryDecomposeCombinedMVP: it returns before the call for one strategy only.
AttemptsDecomposition(strategy) == strategy # "WorldRequiredNoWorld"

\* The lambda tryHandleCombinedMVP.
TryHandleCombinedMVP(st, combinedMvp, baseReg, rows, transposed, shaderKey) ==
    LET s0 == StoreMVPMatrix(st, combinedMvp, shaderKey, baseReg, rows, transposed, FALSE,
                             "deterministic structural combined MVP", baseReg)
        s1 == [s0 EXCEPT !.dbg.registerBase = baseReg, !.dbg.succeeded = FALSE,
                         !.dbg.fovRadians = 0, !.dbg.handedness = "Unknown"]
        worldAvailable == st.dev.m_hasWorld
        strategy == SelectStrategy(worldAvailable)
    IN  IF ~g_config.enableCombinedMVP
        THEN [s1 EXCEPT !.dbg.strategy = "Disabled"]
        ELSE IF st.dev.m_hasWorld /\ st.dev.m_hasView /\ st.dev.m_hasProj
        THEN [s1 EXCEPT !.dbg.strategy = "SkippedFullWVP"]
        ELSE IF ~AttemptsDecomposition(strategy)
        THEN [s1 EXCEPT !.dbg.strategy = strategy]
        ELSE FinishCombinedMVP(
                 s1, Decompose(g_config, combinedMvp, st.dev.m_currentWorld, worldAvailable),
                 strategy, baseReg, rows, transposed, shaderKey)

\* The lambda updateFromClassification. up is the upload: [shaderKey,
\* StartRegister, Vector4fCount, data, suppressView, suppressWorld]; cls is
\* ClassifyMatrixDeterministic(mat, rows, Vector4fCount, StartRegister, baseReg)
\* and projectionInfo is AnalyzeProjectionMatrixNumeric(mat), both computed
\* with the candidate.
UpdateFromClassification(st, mat, baseReg, rows, transposed, up, cls, projectionInfo) ==
    LET
        projSameSource ==
            \/ st.dev.m_projLockedShader = 0
            \/ /\ up.shaderKey = st.dev.m_projLockedShader
               /\ baseReg = st.dev.m_projLockedRegister
        viewSameSource ==
            \/ st.dev.m_viewLockedShader = 0
            \/ /\ up.shaderKey = st.dev.m_viewLockedShader
               /\ baseReg = st.dev.m_viewLockedRegister
    IN  IF /\ cls = "Projection"
           /\ g_config.projMatrixRegister < 0
           /\ "Projection" \notin st.ovr
           /\ "Projection" \notin st.res
        THEN IF ~projectionInfo.ok THEN st
             ELSE IF \/ projectionInfo.fovRadians < g_config.minFOV
                     \/ projectionInfo.fovRadians > g_config.maxFOV THEN st
             ELSE IF ~projSameSource THEN st
             ELSE StoreProjectionMatrix(
                      [st EXCEPT !.dev.m_projLockedShader = up.shaderKey,
                                 !.dev.m_projLockedRegister = baseReg,
                                 !.dev.m_currentProj = mat,
                                 !.dev.m_hasProj = TRUE,
                                 !.dev.m_projLastFrame = g_frameCount,
                                 !.dev.m_projDetectedFrame = g_frameCount,
                                 !.res = @ \cup {"Projection"}],
                      mat, up.shaderKey, baseReg, rows, transposed, FALSE,
                      "deterministic structural projection", -1)
        ELSE IF /\ cls = "View"
                /\ ~up.suppressView
                /\ g_config.viewMatrixRegister < 0
                /\ "View" \notin st.ovr
                /\ "View" \notin st.res
        THEN IF ~viewSameSource THEN st
             ELSE IF /\ st.dev.m_hasProj
                     /\ st.dev.m_projDetectedFrame = g_frameCount
                     /\ ~CrossValidateViewAgainstProjection(mat, st.dev.m_currentProj)
             THEN st
             ELSE StoreViewMatrix(
                      [st EXCEPT !.dev.m_viewLockedShader = up.shaderKey,
                                 !.dev.m_viewLockedRegister = baseReg,
                                 !.dev.m_currentView = mat,
                                 !.dev.m_hasView = TRUE,
                                 !.dev.m_viewLastFrame = g_frameCount,
                                 !.res = @ \cup {"View"}],
                      mat, up.shaderKey, baseReg, rows, transposed, FALSE,
                      "deterministic structural view", -1)
        ELSE IF /\ cls = "World"
                /\ ~up.suppressWorld
                /\ g_config.worldMatrixRegister < 0
                /\ "World" \notin st.ovr
                /\ "World" \notin st.res
        THEN StoreWorldMatrix(
                      [st EXCEPT !.dev.m_currentWorld = mat,
                                 !.dev.m_hasWorld = TRUE,
                                 !.dev.m_worldLastFrame = g_frameCount,
                                 !.res = @ \cup {"World"}],
                      mat, up.shaderKey, baseReg, rows, transposed, FALSE,
                      "deterministic structural world", -1)
        ELSE IF /\ cls = "CombinedPerspective"
                /\ g_config.worldMatrixRegister < 0
                /\ g_config.viewMatrixRegister < 0
                /\ g_config.projMatrixRegister < 0
                /\ st.ovr \cap {"World", "View", "Projection"} = {}
                /\ st.res \cap {"World", "View", "Projection"} = {}
                /\ rows = 4
        THEN TryHandleCombinedMVP(st, mat, baseReg, rows, transposed, up.shaderKey)
        ELSE st

AllSlotsResolved(st) ==
    /\ ("View" \in st.res \/ "View" \in st.ovr \/ g_config.viewMatrixRegister >= 0)
    /\ ("Projection" \in st.res \/ "Projection" \in st.ovr \/ g_config.projMatrixRegister >= 0)
    /\ ("World" \in st.res \/ "World" \in st.ovr \/ g_config.worldMatrixRegister >= 0)

RECURSIVE ScanByBaseRegister(_, _, _, _)
\* The scan loop by increasing base register alone: at each register the 4-row
\* window, then the 3-row one.
ScanByBaseRegister(st, up, rows, offset) ==
    IF offset + 3 > up.Vector4fCount THEN st
    ELSE LET step(s, r) ==
                 IF offset + r > up.Vector4fCount THEN s
                 ELSE LET c == ScanTable[up.data][up.StartRegister][r][offset]
                      IN  IF c.ok /\ c.finalClass # "None"
                          THEN UpdateFromClassification(s, c.mat, up.StartRegister + offset, r,
                                                        c.transposed, up, c.cls, c.projectionInfo)
                          ELSE s
             s1 == step(step(st, 4), 3)
         IN  IF AllSlotsResolved(s1) THEN s1
             ELSE ScanByBaseRegister(s1, up, rows, offset + 1)

RECURSIVE ScanFrom(_, _, _, _)
\* The end of one round of the scan loop: s1 is the state after the window
\* (rows, offset), whose candidate was built with success ok.
ScanNext(s1, up, rows, offset, ok) ==
    IF ok /\ AllSlotsResolved(s1) THEN s1 ELSE ScanFrom(s1, up, rows, offset + 1)

\* One round of the scan loop, for the candidate c of the window (rows, offset).
ScanStep(st, up, rows, offset, c) ==
    ScanNext(IF c.ok /\ c.finalClass # "None"
             THEN UpdateFromClassification(st, c.mat, up.StartRegister + offset, rows,
                                           c.transposed, up, c.cls, c.projectionInfo)
             ELSE st,
             up, rows, offset, c.ok)

\* The scan loop from window (rows, offset) on: rows 4 at every offset, then
\* rows 3; it stops as soon as all three slots are resolved.
ScanFrom(st, up, rows, offset) ==
    IF up.Vector4fCount < rows \/ offset + rows > up.Vector4fCount
    THEN (IF rows = 4 THEN ScanFrom(st, up, 3, 0) ELSE st)
    ELSE ScanStep(st, up, rows, offset, ScanTable[up.data][up.StartRegister][rows][offset])

\* The DevilMayCry4 register layout (g_profileLayout after the profile is set).
Dmc4Layout == [combinedMvpBase |-> 0, worldBase |-> 0, viewInverseBase |-> 4,
               projectionBase |-> 8]

\* The DevilMayCry4 branch of SetVertexShaderConstantF.
Dmc4Capture(st, data, StartRegister, Vector4fCount, shaderKey) ==
    LET extract(base) == TryBuildMatrixFromConstantUpdate(data, StartRegister, Vector4fCount,
                                                          base, 4, FALSE)
        w == extract(Dmc4Layout.combinedMvpBase)
        v == extract(Dmc4Layout.viewInverseBase)
        p == extract(Dmc4Layout.projectionBase)
        s1 == IF ~w.ok THEN st
              ELSE StoreWorldMatrix(
                       StoreMVPMatrix(
                           [st EXCEPT !.dev.m_currentWorld = w.out,
                                      !.dev.m_hasWorld = TRUE,
                                      !.dev.m_worldLastFrame = g_frameCount,
                                      !.ovr = @ \cup {"World"}],
                           w.out, shaderKey, Dmc4Layout.combinedMvpBase, 4, FALSE, TRUE,
                           "DevilMayCry4 profile combined MVP (c0-c3)", -1),
                       w.out, shaderKey, Dmc4Layout.worldBase, 4, FALSE, TRUE,
                       "DevilMayCry4 profile world (c0-c3)", -1)
        s2 == IF ~v.ok THEN s1
              ELSE StoreViewMatrix(
                       [s1 EXCEPT !.dev.m_currentView = v.out,
                                  !.dev.m_hasView = TRUE,
                                  !.dev.m_viewLastFrame = g_frameCount,
                                  !.ovr = @ \cup {"View"}],
                       v.out, shaderKey, Dmc4Layout.viewInverseBase, 4, FALSE, TRUE,
                       "DevilMayCry4 profile view (c4-c7)", -1)
    IN  IF ~p.ok THEN s2
        ELSE StoreProjectionMatrix(
                 [s2 EXCEPT !.dev.m_currentProj = p.out,
                            !.dev.m_hasProj = TRUE,
                            !.dev.m_projLastFrame = g_frameCount,
                            !.ovr = @ \cup {"Projection"}],
                 p.out, shaderKey, Dmc4Layout.projectionBase, 4, FALSE, TRUE,
                 "DevilMayCry4 profile projection (c8-c11)", -1)

\* BarnyardForceWorldFromC0 of camera_proxy.ini, as LoadConfig reads it by default.
g_barnyardForceWorldFromC0 == FALSE

\* One window of the Barnyard profile's own scan, once the candidate is built,
\* its transpose t is at hand and both are classified (direct, probed): the
\* transposed layout is taken when the direct one has no class and it has one.
BarnyardProbed(baseReg, rows, built, t, direct, probed) ==
    [ok |-> built.ok,
     baseReg |-> baseReg,
     rows |-> rows,
     candidate |-> IF direct = "None" /\ g_probeTransposedLayouts /\ probed # "None"
                   THEN t ELSE built.out,
     transposed |-> direct = "None" /\ g_probeTransposedLayouts /\ probed # "None",
     cls |-> IF direct = "None" /\ g_probeTransposedLayouts THEN probed ELSE direct]

\* One window of the Barnyard profile's own scan.
BarnyardWindow(data, StartRegister, rows, offset) ==
    LET built == TryBuildMatrixFromConstantUpdate(From(data, offset), StartRegister + offset,
                                                  rows, StartRegister + offset, rows, FALSE)
    IN  BarnyardProbed(StartRegister + offset, rows, built, TransposeMatrix(built.out),
                       ClassifyMatrixDeterministic(built.out, rows, Len(data),
                                                   StartRegister, StartRegister + offset),
                       ClassifyMatrixDeterministic(TransposeMatrix(built.out), rows, Len(data),
                                                   StartRegister, StartRegister + offset))

RECURSIVE BarnyardScanFrom(_, _, _, _)
\* The Barnyard profile's scan from window (rows, offset) on: rows 4 at every
\* offset, then rows 3, up to the first window classified World; ok is false
\* when there is none.
BarnyardScanFrom(data, StartRegister, rows, offset) ==
    IF Len(data) < rows \/ offset + rows > Len(data)
    THEN (IF rows = 4 THEN BarnyardScanFrom(data, StartRegister, 3, 0)
          ELSE [ok |-> FALSE])
    ELSE LET w == BarnyardWindow(data, StartRegister, rows, offset)
         IN  IF w.ok /\ w.cls = "World" THEN w
             ELSE BarnyardScanFrom(data, StartRegister, rows, offset + 1)

\* The structural step of the Barnyard branch, for the window w its scan found.
BarnyardStructural(st, w, shaderKey) ==
    IF ~w.ok THEN st
    ELSE StoreWorldMatrix([st EXCEPT !.dev.m_currentWorld = w.candidate,
                                     !.dev.m_hasWorld = TRUE,
                                     !.dev.m_worldLastFrame = g_frameCount],
                          w.candidate, shaderKey, w.baseReg, w.rows, w.transposed, FALSE,
                          "Barnyard profile structural world", -1)

\* The Barnyard branch of SetVertexShaderConstantF: World only, from c0 when
\* forced, else from the configured register, else (AutoDetectMatrices) from
\* the first window of the upload its scan classifies World.
BarnyardCapture(st, data, StartRegister, Vector4fCount, shaderKey) ==
    LET captured(mat) == [st EXCEPT !.dev.m_currentWorld = mat,
                                    !.dev.m_hasWorld = TRUE,
                                    !.dev.m_worldLastFrame = g_frameCount]
        forced == TryBuildMatrixFromConstantUpdate(data, StartRegister, Vector4fCount,
                                                   0, 4, FALSE)
        explicit == TryBuildMatrixFromConstantUpdate(data, StartRegister, Vector4fCount,
                                                     g_config.worldMatrixRegister, 4, FALSE)
    IN  IF g_barnyardForceWorldFromC0 /\ forced.ok
        THEN StoreWorldMatrix(captured(forced.out), forced.out, shaderKey, 0, 4, FALSE, TRUE,
                              "Barnyard profile forced world (c0-c3)", -1)
        ELSE IF g_config.worldMatrixRegister >= 0 /\ explicit.ok
        THEN StoreWorldMatrix(captured(explicit.out), explicit.out, shaderKey,
                              g_config.worldMatrixRegister, 4, FALSE, TRUE,
                              "Barnyard profile world (explicit register override)", -1)
        ELSE IF g_config.autoDetectMatrices /\ Vector4fCount >= 3
        THEN BarnyardStructural(st, BarnyardScanFrom(data, StartRegister, 4, 0), shaderKey)
        ELSE st

\* The lambda tryExtractMgrMatrix of the MetalGearRising branch.
TryExtractMgrMatrix(data, StartRegister, Vector4fCount, baseRegister) ==
    IF \/ baseRegister < 0
       \/ StartRegister > baseRegister
       \/ (IF Vector4fCount = 0 THEN StartRegister ELSE StartRegister + Vector4fCount - 1)
              < baseRegister + 3
    THEN [ok |-> FALSE, out |-> ZeroMatrix]
    ELSE TryBuildMatrixFromConstantUpdate(data, StartRegister, Vector4fCount, baseRegister,
                                          4, FALSE)

\* The MetalGearRising branch of SetVertexShaderConstantF, last step first (the
\* device field g_mgrProjectionRegisterValid is the global of that name):
\* ... the World from c16-c19, w = [ok, out];
MgrWorld(st, w, shaderKey) ==
    IF ~w.ok THEN st
    ELSE StoreWorldMatrix(
             [st EXCEPT !.dev.m_currentWorld = w.out, !.dev.m_hasWorld = TRUE,
                        !.dev.m_worldLastFrame = g_frameCount],
             w.out, shaderKey, 16, 4, FALSE, TRUE,
             "MetalGearRising profile world (c16-c19)", -1)

\* ... the View from the View * Projection product vp of c8-c11, once the
\* projection to derive it with is resolved and inverted (projectionInv);
MgrDeriveView(st, vp, haveProjectionForViewDerivation, projectionInv, shaderKey) ==
    IF ~haveProjectionForViewDerivation \/ ~projectionInv.ok THEN st
    ELSE StoreViewMatrix(
             [st EXCEPT !.dev.m_currentView = MultiplyMatrix(projectionInv.out, vp),
                        !.dev.m_hasView = TRUE,
                        !.dev.m_viewLastFrame = g_frameCount],
             MultiplyMatrix(projectionInv.out, vp), shaderKey, 8, 4, FALSE, TRUE,
             "MetalGearRising profile view from VP", 8)

\* ... the projection generated from vp when c4-c7 held none that is typical,
\* generated = [ok, projection, analysis];
MgrAutoProjection(st, vp, generated, shaderKey) ==
    IF /\ ~st.dev.g_mgrProjectionRegisterValid
       /\ g_config.mgrrUseAutoProjectionWhenC4Invalid
       /\ generated.ok
    THEN MgrDeriveView(
             StoreProjectionMatrix(
                 [st EXCEPT !.dev.m_currentProj = generated.projection,
                            !.dev.m_hasProj = TRUE,
                            !.dev.m_projLastFrame = g_frameCount],
                 generated.projection, shaderKey, 8, 4, FALSE, TRUE,
                 "MetalGearRising auto projection from VP (c8-c11)", -1),
             vp, TRUE, InvertMatrix4x4Deterministic(generated.projection), shaderKey)
    ELSE MgrDeriveView(st, vp, st.dev.m_hasProj,
                       InvertMatrix4x4Deterministic(st.dev.m_currentProj), shaderKey)

\* ... the View * Projection product of c8-c11, vp = [ok, out];
MgrViewProjection(st, vp, shaderKey) ==
    IF ~vp.ok THEN st
    ELSE MgrAutoProjection(
             st, vp.out,
             TryExtractProjectionFromCombined(g_config, vp.out, ZeroMatrix, FALSE,
                                              g_config.combinedMVPForceDecomposition),
             shaderKey)

\* ... the Projection of c4-c7, p = [ok, out].
MgrProjection(st, p, shaderKey) ==
    IF ~p.ok THEN st
    ELSE StoreProjectionMatrix(
             [st EXCEPT !.dev.g_mgrProjectionRegisterValid =
                            IsTypicalProjectionMatrix(g_config, p.out),
                        !.dev.m_currentProj = p.out,
                        !.dev.m_hasProj = TRUE,
                        !.dev.m_projLastFrame = g_frameCount],
             p.out, shaderKey, 4, 4, FALSE, TRUE,
             IF IsTypicalProjectionMatrix(g_config, p.out)
             THEN "MetalGearRising profile projection (c4-c7)"
             ELSE "MetalGearRising profile projection (c4-c7, non-typical)", -1)

MgrCapture(st, data, StartRegister, Vector4fCount, shaderKey) ==
    MgrWorld(
        MgrViewProjection(
            MgrProjection(st, TryExtractMgrMatrix(data, StartRegister, Vector4fCount, 4),
                          shaderKey),
            TryExtractMgrMatrix(data, StartRegister, Vector4fCount, 8), shaderKey),
        TryExtractMgrMatrix(data, StartRegister, Vector4fCount, 16), shaderKey)

\* The state SetVertexShaderConstantF(StartRegister, data, Len(data)) leaves,
\* as the record st. Manual bindings and constant overrides are set from the
\* overlay only and are not enabled here.
UploadResult(StartRegister, data) ==
    LET Vector4fCount == Len(data)
        shaderKey == dev.m_currentVertexShader
        st0 == [dev |-> dev, cam |-> g_cameraMatrices, src |-> g_matrixSources,
                dbg |-> g_combinedMvpDebug, ovr |-> {}, res |-> {},
                pub |-> {g_cameraMatrices}]
        s1 == TryExplicitRegisterOverride(st0, "World", g_config.worldMatrixRegister,
                                          data, StartRegister, Vector4fCount, shaderKey)
        s2 == TryExplicitRegisterOverride(s1, "View", g_config.viewMatrixRegister,
                                          data, StartRegister, Vector4fCount, shaderKey)
        s3 == TryExplicitRegisterOverride(s2, "Projection", g_config.projMatrixRegister,
                                          data, StartRegister, Vector4fCount, shaderKey)
        up == [shaderKey |-> shaderKey, StartRegister |-> StartRegister,
               Vector4fCount |-> Vector4fCount, data |-> data,
               suppressView |-> SuppressTable[data][StartRegister]["View"],
               suppressWorld |-> SuppressTable[data][StartRegister]["World"]]
    IN  IF g_activeGameProfile = "MetalGearRising"
        THEN MgrCapture(st0, data, StartRegister, Vector4fCount, shaderKey)
        ELSE IF g_activeGameProfile = "Barnyard"
        THEN BarnyardCapture(st0, data, StartRegister, Vector4fCount, shaderKey)
        ELSE IF g_activeGameProfile = "DevilMayCry4"
        THEN Dmc4Capture(st0, data, StartRegister, Vector4fCount, shaderKey)
        ELSE IF Vector4fCount >= 3 THEN ScanFrom(s3, up, 4, 0)
        ELSE s3

\* The device's state as the record the handlers thread.
DeviceState ==
    [dev |-> dev, cam |-> g_cameraMatrices, src |-> g_matrixSources,
     dbg |-> g_combinedMvpDebug, ovr |-> {}, res |-> {},
     pub |-> {g_cameraMatrices}]

\* The windows of an upload of n registers in the order the scan takes them: the 4-row
\* windows by increasing offset, then the 3-row windows by increasing offset.
WindowOrder(n) ==
    LET fours == IF n >= 4 THEN n - 3 ELSE 0
        threes == IF n >= 3 THEN n - 2 ELSE 0
    IN  [k \in 1..(fours + threes) |->
            IF k <= fours THEN [rows |-> 4, offset |-> k - 1]
            ELSE [rows |-> 3, offset |-> k - fours - 1]]

\* The upload record the scan works on.
UploadOf(StartRegister, data) ==
    [shaderKey |-> dev.m_currentVertexShader, StartRegister |-> StartRegister,
     Vector4fCount |-> Len(data), data |-> data,
     suppressView |-> SuppressTable[data][StartRegister]["View"],
     suppressWorld |-> SuppressTable[data][StartRegister]["World"]]

\* The state after the window w of the upload, classified and handed to
\* updateFromClassification from the state st.
Examine(st, StartRegister, data, w) ==
    LET c == ScanTable[data][StartRegister][w.rows][w.offset]
    IN  IF c.ok /\ c.finalClass # "None"
        THEN UpdateFromClassification(st, c.mat, StartRegister + w.offset, w.rows,
                                      c.transposed, UploadOf(StartRegister, data),
                                      c.cls, c.projectionInfo)
        ELSE st

\* The states so far and the state after window k of WindowOrder.
ExamineNext(before, StartRegister, data, k) ==
    Append(before, Examine(before[k], StartRegister, data, WindowOrder(Len(data))[k]))

RECURSIVE ExaminedThrough(_, _, _)
\* The states of the upload from the current state on: the first is the
\* current state, the next ones follow window 1, 2, ... k of WindowOrder,
\* every window examined.
ExaminedThrough(StartRegister, data, k) ==
    IF k = 0 THEN << DeviceState >>
    ELSE ExamineNext(ExaminedThrough(StartRegister, data, k - 1), StartRegister, data, k)

\* ----------------------------------------------------------------- actions
Init ==
    /\ g_config \in Configs \cup EmitConfigs \cup ProfileConfigs \cup DecomposeConfigs
                   \cup MgrConfigs \cup ScannerConfigs
    /\ g_activeGameProfile \in Profiles
    /\ g_frameCount = 0
    /\ dev \in { [m_currentVertexShader |-> 0,
              m_currentWorld |-> CreateIdentityMatrix,
              m_currentView |-> CreateIdentityMatrix,
              m_currentProj |-> CreateIdentityMatrix,
              m_hasWorld |-> FALSE, m_hasView |-> FALSE, m_hasProj |-> FALSE,
              m_worldLastFrame |-> -1, m_viewLastFrame |-> -1, m_projLastFrame |-> -1,
              m_projDetectedFrame |-> -1,
              m_viewLockedShader |-> 0, m_viewLockedRegister |-> -1,
              m_projLockedShader |-> 0, m_projLockedRegister |-> -1,
              g_mgrProjectionRegisterValid |-> FALSE,
              m_realEx |-> realEx] : realEx \in BOOLEAN }
    /\ realCalls = [presents |-> 0, vsConstantF |-> << >>]
    /\ g_cameraMatrices = NoCamera
    /\ g_matrixSources = [slot \in Slots |-> NoSource]
    /\ g_combinedMvpDebug = NoDebug
    /\ g_gameSetTransformAnySeen = FALSE
    /\ g_shaderConstants = << >>
    /\ realDevice = [world |-> CreateIdentityMatrix, view |-> CreateIdentityMatrix,
                     projection |-> CreateIdentityMatrix]
    /\ snapshot = NoCamera
    /\ scan = [g_memoryScannerThread |-> 0, g_memoryScannerLastTick |-> 0, created |-> 0,
               pending |-> -1, scanning |-> {}, exiting |-> {}]

\* ... on a device without the IDirect3DDevice9Ex interface.
InitPlain == Init /\ ~dev.m_realEx

SetVertexShader(pShader) ==
    /\ dev' = [dev EXCEPT !.m_currentVertexShader = pShader]
    /\ g_shaderConstants' = GetShaderState(g_shaderConstants, pShader)
    /\ UNCHANGED << scan, g_config, g_activeGameProfile, g_frameCount, g_cameraMatrices,
                    g_matrixSources, g_combinedMvpDebug, g_gameSetTransformAnySeen,
                    realDevice, realCalls, snapshot >>

\* The calls of SetVertexShaderConstantF the handler makes on the wrapped
\* device: every path ends with the same call.
ForwardsNothing(StartRegister, Vector4fCount) == << >>

ForwardConstantF(StartRegister, Vector4fCount) ==
    << [StartRegister |-> StartRegister, Vector4fCount |-> Vector4fCount] >>

\* SetVertexShaderConstantF(StartRegister, data, Len(data)) on the render
\* thread. With queried, another thread calls Proxy_GetCameraMatrices
\* meanwhile: it takes g_cameraMatricesMutex at one of the points where the
\* handler does not hold it.
UploadConstants(StartRegister, data, queried) ==
    \E st \in {UploadResult(StartRegister, data)} :
        /\ \A reg \in Tracked \cap StoredRegisters(StartRegister, Len(data)) :
               GetShaderState(g_shaderConstants, dev.m_currentVertexShader)
                   [dev.m_currentVertexShader].sampleCounts[reg] < MaxSamples
        /\ g_shaderConstants' =
               [GetShaderState(g_shaderConstants, dev.m_currentVertexShader)
                   EXCEPT ![dev.m_currentVertexShader] = StoreConstants(@, StartRegister, data)]
        /\ dev' = st.dev
        /\ g_cameraMatrices' = st.cam
        /\ g_matrixSources' = st.src
        /\ g_combinedMvpDebug' = st.dbg
        /\ snapshot' \in IF queried THEN st.pub ELSE {snapshot}
        /\ realCalls' = [realCalls EXCEPT
                            !.vsConstantF = ForwardConstantF(StartRegister, Len(data))]
        /\ UNCHANGED << scan, g_config, g_activeGameProfile, g_frameCount,
                        g_gameSetTransformAnySeen, realDevice >>

SetVertexShaderConstantF(StartRegister, data) ==
    UploadConstants(StartRegister, data, FALSE)

\* SetVertexShaderConstantF while another thread calls Proxy_GetCameraMatrices.
SetVertexShaderConstantFQueried(StartRegister, data) ==
    UploadConstants(StartRegister, data, TRUE)

\* WrappedVertexShader9::Release when it drops the last reference: the device
\* holds one on the shader it has set, so that one is not released.
ReleaseVertexShader(shader) ==
    /\ shader # 0
    /\ shader # dev.m_currentVertexShader
    /\ g_shaderConstants' = OnVertexShaderReleased(g_shaderConstants, shader)
    /\ UNCHANGED << scan, g_config, g_activeGameProfile, g_frameCount, dev, g_cameraMatrices,
                    g_matrixSources, g_combinedMvpDebug, g_gameSetTransformAnySeen,
                    realDevice, realCalls, snapshot >>

ResetLocks(d) ==
    [d EXCEPT !.m_viewLockedShader = 0, !.m_viewLockedRegister = -1,
              !.m_projLockedShader = 0, !.m_projLockedRegister = -1]

\* CreateThread: a new thread that runs MemoryScannerThread, and its handle
\* returned to the caller, or no thread and a null handle. The handle is in
\* pending until the caller stores it.
CreateThread(sc) ==
    { [sc EXCEPT !.pending = 0] }
    \cup IF sc.created < MaxScans
         THEN { [sc EXCEPT !.created = @ + 1, !.scanning = @ \cup {sc.created + 1},
                           !.pending = sc.created + 1] }
         ELSE {}

\* StartMemoryScanner up to the return of CreateThread.
StartMemoryScannerCall(sc) ==
    IF sc.g_memoryScannerThread # 0 THEN {sc} ELSE CreateThread(sc)

\* The scanner block of Present; elapsed says that the interval has passed
\* since g_memoryScannerLastTick.
PresentScan(sc, elapsed) ==
    IF g_config.enableMemoryScanner /\ (sc.g_memoryScannerLastTick = 0 \/ elapsed)
    THEN { [o EXCEPT !.g_memoryScannerLastTick = 1] : o \in StartMemoryScannerCall(sc) }
    ELSE {sc}

Present ==
    /\ g_frameCount < MaxFrame
    /\ realCalls.presents < MaxFrame
    /\ scan.pending = -1
    /\ g_frameCount' = g_frameCount + 1
    /\ dev' = IF g_activeGameProfile = "None" THEN ResetLocks(dev) ELSE dev
    /\ realCalls' = [realCalls EXCEPT !.presents = @ + 1]
    /\ \E elapsed \in BOOLEAN : scan' \in PresentScan(scan, elapsed)
    /\ UNCHANGED << g_config, g_shaderConstants, g_activeGameProfile, g_cameraMatrices, g_matrixSources,
                    g_combinedMvpDebug, g_gameSetTransformAnySeen, realDevice, snapshot >>

\* The state of the proxy apart from the scanner.
proxyVars ==
    << g_config, g_activeGameProfile, g_frameCount, dev, g_cameraMatrices, g_matrixSources,
       g_combinedMvpDebug, g_gameSetTransformAnySeen, g_shaderConstants, realDevice, realCalls,
       snapshot >>

\* StartMemoryScanner called from the overlay's button, up to the return of
\* CreateThread.
StartMemoryScanner ==
    /\ scan.pending = -1
    /\ scan' \in StartMemoryScannerCall(scan)
    /\ UNCHANGED proxyVars

\* StartMemoryScanner stores the handle CreateThread returned and returns.
StartMemoryScannerReturn ==
    /\ scan.pending # -1
    /\ scan' = [scan EXCEPT !.g_memoryScannerThread = scan.pending, !.pending = -1]
    /\ UNCHANGED proxyVars

\* MemoryScannerThread up to its last statement but one: the scan, then
\* g_memoryScannerThread = nullptr.
MemoryScannerThread(t) ==
    /\ t \in scan.scanning
    /\ scan' = [scan EXCEPT !.g_memoryScannerThread = 0,
                            !.scanning = @ \ {t}, !.exiting = @ \cup {t}]
    /\ UNCHANGED proxyVars

\* The thread returns and is gone.
MemoryScannerThreadReturn(t) ==
    /\ t \in scan.exiting
    /\ scan' = [scan EXCEPT !.exiting = @ \ {t}]
    /\ UNCHANGED proxyVars

\* PresentEx: handed to the device's own PresentEx when the device has the
\* IDirect3DDevice9Ex interface, and to Present otherwise.
PresentEx ==
    \/ /\ dev.m_realEx
       /\ realCalls.presents < MaxFrame
       /\ realCalls' = [realCalls EXCEPT !.presents = @ + 1]
       /\ UNCHANGED << scan, g_config, g_shaderConstants, g_activeGameProfile, g_frameCount, dev,
                       g_cameraMatrices, g_matrixSources, g_combinedMvpDebug,
                       g_gameSetTransformAnySeen, realDevice, snapshot >>
    \/ /\ ~dev.m_realEx
       /\ Present

BeginScene ==
    /\ g_combinedMvpDebug' = NoDebug
    /\ dev' = IF g_activeGameProfile = "MetalGearRising"
              THEN [dev EXCEPT !.m_currentWorld = CreateIdentityMatrix,
                               !.m_hasWorld = FALSE,
                               !.g_mgrProjectionRegisterValid = FALSE]
              ELSE IF g_activeGameProfile = "None" THEN ResetLocks(dev) ELSE dev
    /\ UNCHANGED << scan, g_config, g_shaderConstants, g_activeGameProfile, g_frameCount, g_cameraMatrices,
                    g_matrixSources, g_gameSetTransformAnySeen, realDevice, realCalls, snapshot >>

\* The matrices the game passes to SetTransform itself.
GameTransforms == {ViewB}

\* What SetTransform keeps of the game's matrix for the slot State, under the
\* source label of the mode that keeps it.
CaptureGameTransform(st0, State, pMatrix, mode) ==
    IF State = "World"
    THEN StoreWorldMatrix(
             [st0 EXCEPT !.dev.m_currentWorld = pMatrix, !.dev.m_hasWorld = TRUE,
                         !.dev.m_worldLastFrame = g_frameCount],
             pMatrix, 0, -1, 4, FALSE, TRUE, "game SetTransform(World)" \o mode, -1)
    ELSE IF State = "View"
    THEN StoreViewMatrix(
             [st0 EXCEPT !.dev.m_currentView = pMatrix, !.dev.m_hasView = TRUE,
                         !.dev.m_viewLastFrame = g_frameCount],
             pMatrix, 0, -1, 4, FALSE, TRUE, "game SetTransform(View)" \o mode, -1)
    ELSE StoreProjectionMatrix(
             [st0 EXCEPT !.dev.m_currentProj = pMatrix, !.dev.m_hasProj = TRUE,
                         !.dev.m_projLastFrame = g_frameCount],
             pMatrix, 0, -1, 4, FALSE, TRUE, "game SetTransform(Projection)" \o mode, -1)

\* SetTransform(State, pMatrix) for State one of D3DTS_WORLD, D3DTS_VIEW,
\* D3DTS_PROJECTION and pMatrix not null, outside the Barnyard profile. In the
\* round-trip compatibility mode the device's SetTransform succeeds and its
\* GetTransform returns the matrix just set.
SetTransform(State, pMatrix) ==
    LET st0 == [dev |-> dev, cam |-> g_cameraMatrices, src |-> g_matrixSources,
                dbg |-> g_combinedMvpDebug, ovr |-> {}, res |-> {},
                pub |-> {g_cameraMatrices}]
        st == IF g_config.setTransformBypassProxyWhenGameProvides
              THEN CaptureGameTransform(st0, State, pMatrix, " direct passthrough")
              ELSE IF g_config.setTransformRoundTripCompatibilityMode
              THEN CaptureGameTransform(st0, State, pMatrix, "+GetTransform compatibility")
              ELSE st0
    IN  /\ g_gameSetTransformAnySeen' = TRUE
        /\ dev' = st.dev
        /\ g_cameraMatrices' = st.cam
        /\ g_matrixSources' = st.src
        /\ realDevice' = IF State = "World" THEN [realDevice EXCEPT !.world = pMatrix]
                         ELSE IF State = "View" THEN [realDevice EXCEPT !.view = pMatrix]
                         ELSE [realDevice EXCEPT !.projection = pMatrix]
        /\ UNCHANGED << scan, realCalls, g_config, g_shaderConstants, g_activeGameProfile, g_frameCount, g_combinedMvpDebug,
                        snapshot >>

\* EmitMatrix with the staleness test off by one frame: a slot refreshed in the
\* previous frame already counts as stale.
EmitMatrixStaleAfterOneFrame(current, has, lastFrame) ==
    IF ~has THEN CreateIdentityMatrix
    ELSE IF lastFrame >= 0 /\ g_frameCount > lastFrame THEN CreateIdentityMatrix
    ELSE current

\* The matrix EmitFixedFunctionTransforms hands to the device for one slot when
\* no profile is active: identity when the slot was never set or is stale.
EmitMatrix(current, has, lastFrame) ==
    IF ~has THEN CreateIdentityMatrix
    ELSE IF lastFrame >= 0 /\ g_frameCount > lastFrame + 1 THEN CreateIdentityMatrix
    ELSE current

\* EmitFixedFunctionTransforms: the transforms of the device after the call
\* (the experimental emission options are off).
EmitFixedFunctionTransforms ==
    IF ~g_config.emitFixedFunctionTransforms THEN realDevice
    ELSE IF g_config.setTransformBypassProxyWhenGameProvides /\ g_gameSetTransformAnySeen
    THEN realDevice
    ELSE IF g_activeGameProfile \in {"MetalGearRising", "DevilMayCry4"}
    THEN (IF ~(dev.m_hasWorld /\ dev.m_hasView /\ dev.m_hasProj) THEN realDevice
          ELSE [world |-> dev.m_currentWorld, view |-> dev.m_currentView,
                projection |-> dev.m_currentProj])
    ELSE [world |-> EmitMatrix(dev.m_currentWorld, dev.m_hasWorld, dev.m_worldLastFrame),
          view |-> EmitMatrix(dev.m_currentView, dev.m_hasView, dev.m_viewLastFrame),
          projection |-> EmitMatrix(dev.m_currentProj, dev.m_hasProj, dev.m_projLastFrame)]

\* DrawPrimitive and its siblings (rendering not paused, the shader not disabled).
DrawPrimitive ==
    /\ realDevice' = EmitFixedFunctionTransforms
    /\ UNCHANGED << scan, realCalls, g_config, g_shaderConstants, g_activeGameProfile, g_frameCount, dev, g_cameraMatrices,
                    g_matrixSources, g_combinedMvpDebug, g_gameSetTransformAnySeen,
                    snapshot >>

\* Proxy_GetCameraMatrices: the consumer reads the snapshot it returns.
Proxy_GetCameraMatrices ==
    /\ snapshot' = g_cameraMatrices
    /\ UNCHANGED << scan, g_config, g_shaderConstants, g_activeGameProfile, g_frameCount, dev, g_cameraMatrices,
                    g_matrixSources, g_combinedMvpDebug, g_gameSetTransformAnySeen,
                    realDevice, realCalls >>

\* --------------------------------------------------------- specifications
\* The program takes any of its handlers at any time; each specification
\* below lets the game make the calls, with the uploads, that one part of the
\* engine is about, from the configuration that part runs under.

\* Source locks over the frame lifecycle: structural detection of View and
\* Projection uploads from several shaders and registers.
LockUploads == { Rows(ViewA), Rows(ViewB), Rows(ProjA) }

InitLock == InitPlain /\ g_config = DefaultConfig /\ g_activeGameProfile = "None"

Next ==
    \/ \E pShader \in Shaders : SetVertexShader(pShader)
    \/ \E StartRegister \in StartRegisters, data \in LockUploads :
           SetVertexShaderConstantF(StartRegister, data)
    \/ Present
    \/ BeginScene

Spec == InitLock /\ [][Next]_vars

\* Draw-time emission: World, View and Projection refreshed in different frames.
EmitUploads == { Rows(ViewA), Rows(ProjA), Rows(WorldA) }

\* (the Barnyard profile's draw-time forwarding is not part of the emission model)
InitEmit == InitPlain /\ g_config \in EmitConfigs /\ g_activeGameProfile \in {"None", "DevilMayCry4"}

NextEmit ==
    \/ \E data \in EmitUploads : SetVertexShaderConstantF(0, data)
    \/ Present
    \/ \E State \in {"World", "View", "Projection"}, pMatrix \in GameTransforms :
           SetTransform(State, pMatrix)
    \/ DrawPrimitive

SpecEmit == InitEmit /\ [][NextEmit]_vars

\* The consumer's query between uploads and frames.
InitQuery == InitPlain /\ g_config = DefaultConfig /\ g_activeGameProfile = "None"

NextQuery ==
    \/ \E data \in EmitUploads : SetVertexShaderConstantF(0, data)
    \/ Present
    \/ Proxy_GetCameraMatrices

SpecQuery == InitQuery /\ [][NextQuery]_vars

\* Combined-matrix decomposition, enabled or not.
MvpUploads == { Rows(WorldA), Rows(CombinedA), Rows(CombinedB),
                Rows(ViewC) \o Rows(CombinedA) }

InitMvp == InitPlain /\ g_config \in Configs /\ g_activeGameProfile = "None"

NextMvp ==
    \/ \E pShader \in Shaders : SetVertexShader(pShader)
    \/ \E data \in MvpUploads : SetVertexShaderConstantF(0, data)
    \/ Present
    \/ BeginScene

SpecMvp == InitMvp /\ [][NextMvp]_vars

\* A bone-palette upload among ordinary View uploads.
PaletteUploads == { Rows(ViewA), Repeat(Rows(ViewB), PaletteBlocks) }

NextPalette ==
    \/ \E pShader \in Shaders : SetVertexShader(pShader)
    \/ \E StartRegister \in StartRegisters, data \in PaletteUploads :
           SetVertexShaderConstantF(StartRegister, data)
    \/ Present

SpecPalette == InitLock /\ [][NextPalette]_vars

\* A camera uploaded as View, as Projection, or as their product, by the
\* fixed-function pipeline's null shader.
CameraUploads == { Rows(m) : m \in CameraViews \cup CameraProjections \cup ViewProjections }

NextCamera ==
    \/ \E data \in CameraUploads : SetVertexShaderConstantF(0, data)
    \/ Present

SpecCamera == InitMvp /\ [][NextCamera]_vars

\* Uploads to the last registers of the file, from shaders that come and go.
RegisterUploads == { Rows(ViewB) }

NextRegisters ==
    \/ \E pShader \in Shaders : SetVertexShader(pShader)
    \/ \E StartRegister \in TopRegisters, data \in RegisterUploads :
           SetVertexShaderConstantF(StartRegister, data)
    \/ \E shader \in Shaders : ReleaseVertexShader(shader)

SpecRegisters == InitLock /\ [][NextRegisters]_vars

\* The window scan of one upload: uploads with several admissible windows.
NextScan ==
    \/ \E StartRegister \in StartRegisters, data \in ScanUploads :
           SetVertexShaderConstantF(StartRegister, data)
    \/ Present

SpecScan == InitLock /\ [][NextScan]_vars

\* Uploads under a game profile: the matrices the titles keep at c0, c4 and c8.
NextProfile ==
    \/ \E StartRegister \in StartRegisters \cup {8},
          data \in { Rows(WorldA), Rows(ViewB), Rows(ProjA) } :
           SetVertexShaderConstantF(StartRegister, data)
    \/ Present
    \/ BeginScene

InitProfile == InitPlain /\ g_config \in ProfileConfigs /\ g_activeGameProfile \in {"DevilMayCry4", "Barnyard"}

SpecProfile == InitProfile /\ [][NextProfile]_vars

\* Combined matrices of a narrow and of an ordinary camera, under every
\* setting of the decomposition's options.
DecomposeUploads ==
    { Rows(WorldA), Rows(CombinedA), Rows(CombinedNarrow), Rows(CombinedNeedle), Rows(ProjA) }

InitDecompose == InitPlain /\ g_config \in DecomposeConfigs /\ g_activeGameProfile = "None"

NextDecompose ==
    \/ \E data \in DecomposeUploads : SetVertexShaderConstantF(0, data)
    \/ Present
    \/ BeginScene

SpecDecompose == InitDecompose /\ [][NextDecompose]_vars

\* The MetalGearRising profile: the game uploads its Projection to c4-c7, its
\* View * Projection product to c8-c11 and a World to c16-c19, or all of
\* c4-c19 at once; it may also set the World transform itself.
MgrUploads ==
    { [StartRegister |-> 4, data |-> Rows(ProjA)],
      [StartRegister |-> 8, data |-> Rows(MultiplyMatrix(ViewC, ProjA))],
      [StartRegister |-> 16, data |-> Rows(WorldA)],
      [StartRegister |-> 4, data |-> Rows(ProjA) \o Rows(MultiplyMatrix(ViewC, ProjA))
                                        \o Rows(ViewA) \o Rows(WorldA)] }

InitMgr == InitPlain /\ g_config \in MgrConfigs /\ g_activeGameProfile = "MetalGearRising"

NextMgr ==
    \/ \E up \in MgrUploads : SetVertexShaderConstantF(up.StartRegister, up.data)
    \/ Present
    \/ BeginScene
    \/ \E pMatrix \in GameTransforms : SetTransform("World", pMatrix)
    \/ DrawPrimitive

SpecMgr == InitMgr /\ [][NextMgr]_vars

\* Frames presented through Present and through PresentEx, on a device with
\* or without the IDirect3DDevice9Ex interface.
InitPresent == Init /\ g_config = DefaultConfig /\ g_activeGameProfile = "None"

NextPresent ==
    \/ \E pShader \in Shaders : SetVertexShader(pShader)
    \/ \E StartRegister \in StartRegisters, data \in LockUploads :
           SetVertexShaderConstantF(StartRegister, data)
    \/ Present
    \/ PresentEx

SpecPresent == InitPresent /\ [][NextPresent]_vars

\* Uploads on every path of the handler: under each profile and under none.
ForwardUploads ==
    { [StartRegister |-> 0, data |-> Rows(WorldA)],
      [StartRegister |-> 4, data |-> Rows(ProjA)],
      [StartRegister |-> 4, data |-> Rows(ViewC) \o Rows(CombinedA)] }

InitForward ==
    InitPlain /\ g_config = [DefaultConfig EXCEPT !.enableCombinedMVP = TRUE]

NextForward ==
    \/ SetVertexShader(1)
    \/ \E up \in ForwardUploads : SetVertexShaderConstantF(up.StartRegister, up.data)
    \/ Present

SpecForward == InitForward /\ [][NextForward]_vars

\* The render thread presents frames and starts scans; the scanner threads
\* run beside it.
InitScanner ==
    InitPlain /\ g_config \in ScannerConfigs /\ g_activeGameProfile = "None"

NextScanner ==
    \/ Present
    \/ StartMemoryScanner
    \/ StartMemoryScannerReturn
    \/ \E t \in 1..MaxScans : MemoryScannerThread(t)
    \/ \E t \in 1..MaxScans : MemoryScannerThreadReturn(t)

SpecScanner == InitScanner /\ [][NextScanner]_vars

\* The consumer's thread queries the camera while the render thread uploads
\* and decomposes combined matrices.
SnapshotUploads == { Rows(WorldA), Rows(CombinedA), Rows(ViewB) }

InitSnapshot ==
    InitPlain /\ g_config = [DefaultConfig EXCEPT !.enableCombinedMVP = TRUE]
         /\ g_activeGameProfile = "None"

NextSnapshot ==
    \/ \E data \in SnapshotUploads : SetVertexShaderConstantF(0, data)
    \/ \E data \in SnapshotUploads : SetVertexShaderConstantFQueried(0, data)
    \/ Proxy_GetCameraMatrices
    \/ Present
    \/ BeginScene

SpecSnapshot == InitSnapshot /\ [][NextSnapshot]_vars

\* ------------------------------------------------------------- properties
\* The (shader, base register) pair a slot's published matrix came from, and
\* the pair its source lock holds.
ViewPair == << g_matrixSources["View"].shaderKey, g_matrixSources["View"].baseRegister >>
ProjPair == << g_matrixSources["Projection"].shaderKey,
               g_matrixSources["Projection"].baseRegister >>
ViewLock == << dev.m_viewLockedShader, dev.m_viewLockedRegister >>
ProjLock == << dev.m_projLockedShader, dev.m_projLockedRegister >>
Unlocked == << 0, -1 >>

\* The View slot was set during the current frame.
ViewSetThisFrame == dev.m_hasView /\ dev.m_viewLastFrame = g_frameCount

\* C1: once an upload of the current frame has set the View slot from the
\* source (A, r1), no later step of the same frame changes the View slot's
\* matrix source: its provenance stays (A, r1) until the frame boundary.
C1_FirstViewSourceKept ==
    [][ (g_frameCount' = g_frameCount /\ ViewSetThisFrame) => ViewPair' = ViewPair ]_vars

\* C2: while a slot's lock is held by the pair that set the slot in this
\* frame, every replacement of the slot's matrix comes from that pair, the
\* replacements a combined-matrix decomposition makes included.
C2_ReplacedOnlyBySameSource ==
    [][ /\ (dev.m_viewLockedShader # 0 /\ dev'.m_currentView # dev.m_currentView)
            => ViewPair' = ViewLock
        /\ (dev.m_projLockedShader # 0 /\ dev'.m_currentProj # dev.m_currentProj)
            => ProjPair' = ProjLock ]_vars

\* C3: the first accepted View (Projection) candidate of a frame locks the
\* slot to its (shader, register) pair, for every shader identity, 0
\* included: once the lock names a register, no candidate moves it to another
\* pair; it changes only by being reset.
C3_LockHeldForEveryShader ==
    [][ /\ dev.m_viewLockedRegister # -1 => (ViewLock' = ViewLock \/ ViewLock' = Unlocked)
        /\ dev.m_projLockedRegister # -1 => (ProjLock' = ProjLock \/ ProjLock' = Unlocked)
      ]_vars

\* C4: with no profile active, a lock that is set stays set through every
\* step that is not the frame's Present, BeginScene included.
C4_LockHeldUntilPresent ==
    [][ g_frameCount' = g_frameCount
        => /\ (dev.m_viewLockedShader # 0 => ViewLock' = ViewLock)
           /\ (dev.m_projLockedShader # 0 => ProjLock' = ProjLock) ]_vars

\* The matrix the claim expects a draw to emit for a slot: the identity when
\* the slot was never set or was last refreshed more than one frame ago.
FreshOrIdentity(current, has, lastFrame) ==
    IF ~has \/ g_frameCount - lastFrame > 1 THEN CreateIdentityMatrix ELSE current

\* A draw that emits: emission enabled and not bypassed, no profile active.
DrawEmits ==
    /\ DrawPrimitive
    /\ g_activeGameProfile = "None"
    /\ g_config.emitFixedFunctionTransforms
    /\ ~(g_config.setTransformBypassProxyWhenGameProvides /\ g_gameSetTransformAnySeen)

\* C5: a draw with no profile active hands the device, for World, View and
\* Projection each on its own, the identity if the slot was never set or is
\* more than one frame behind, and the slot's current matrix otherwise.
C5_StaleSlotEmitsIdentity ==
    [][ DrawEmits =>
        realDevice' =
            [world |-> FreshOrIdentity(dev.m_currentWorld, dev.m_hasWorld,
                                       dev.m_worldLastFrame),
             view |-> FreshOrIdentity(dev.m_currentView, dev.m_hasView,
                                      dev.m_viewLastFrame),
             projection |-> FreshOrIdentity(dev.m_currentProj, dev.m_hasProj,
                                            dev.m_projLastFrame)] ]_vars

\* A stale View was emitted as the identity while the Projection refreshed in
\* the current frame was emitted as it is.
C5_Witness ==
    /\ g_activeGameProfile = "None"
    /\ g_config.emitFixedFunctionTransforms
    /\ ~g_gameSetTransformAnySeen
    /\ dev.m_hasView /\ dev.m_currentView = ViewA
    /\ g_frameCount - dev.m_viewLastFrame > 1
    /\ dev.m_hasProj /\ dev.m_projLastFrame = g_frameCount
    /\ realDevice.view = CreateIdentityMatrix
    /\ realDevice.projection = ProjA

\* C6: a query made when a slot has gone two whole frames without a refresh
\* (its last refresh lies three frame boundaries back or more) reports the
\* identity for that slot in the snapshot it returns.
C6_StaleSlotReportedIdentity ==
    [][ Proxy_GetCameraMatrices =>
        /\ (dev.m_hasView /\ g_frameCount - dev.m_viewLastFrame > 2)
               => snapshot'.view = CreateIdentityMatrix
        /\ (dev.m_hasProj /\ g_frameCount - dev.m_projLastFrame > 2)
               => snapshot'.projection = CreateIdentityMatrix
        /\ (dev.m_hasWorld /\ g_frameCount - dev.m_worldLastFrame > 2)
               => snapshot'.world = CreateIdentityMatrix ]_vars

\* The upload of a bone palette: PaletteBlocks disjoint 4-register blocks that
\* each pass the View test.
BonePalette == Repeat(Rows(ViewB), PaletteBlocks)

\* C7: an upload holding 8 or more disjoint stride-4 blocks that each pass the
\* View test leaves the View slot alone: its matrix, its published matrix
\* and provenance, its lock and its refresh frame are what they were.
C7_PaletteLeavesViewAlone ==
    [][ (\E StartRegister \in StartRegisters :
             SetVertexShaderConstantF(StartRegister, BonePalette))
        => /\ dev'.m_currentView = dev.m_currentView
           /\ dev'.m_hasView = dev.m_hasView
           /\ dev'.m_viewLastFrame = dev.m_viewLastFrame
           /\ ViewLock' = ViewLock
           /\ g_cameraMatrices'.view = g_cameraMatrices.view
           /\ g_matrixSources'["View"] = g_matrixSources["View"] ]_vars

\* Everything of the World, View and Projection slots: the device's matrix,
\* has flag and refresh frame, the published matrix and its provenance.
SlotsOf(st) ==
    << st.dev.m_currentWorld, st.dev.m_currentView, st.dev.m_currentProj,
       st.dev.m_hasWorld, st.dev.m_hasView, st.dev.m_hasProj,
       st.dev.m_worldLastFrame, st.dev.m_viewLastFrame, st.dev.m_projLastFrame,
       st.cam.world, st.cam.view, st.cam.projection,
       st.cam.hasWorld, st.cam.hasView, st.cam.hasProjection,
       st.src["World"], st.src["View"], st.src["Projection"] >>

LocksOf(st) ==
    << st.dev.m_viewLockedShader, st.dev.m_viewLockedRegister,
       st.dev.m_projLockedShader, st.dev.m_projLockedRegister >>

\* The result of handing the combined candidate mvp, found at c0 in a 4-row
\* window, to tryHandleCombinedMVP in the current state.
CombinedAttempt(mvp) ==
    TryHandleCombinedMVP(DeviceState, mvp, 0, 4, FALSE, dev.m_currentVertexShader)

\* C8: in every reachable state, a decomposition attempt that fails leaves
\* the World, View and Projection slots exactly as they were (matrices, has
\* flags, refresh frames, provenance) and marks none of them resolved.
C8_FailurePublishesNothing ==
    \A mvp \in CombinedCandidates :
        CombinedAttempt(mvp).dbg.strategy = "Failed"
        => /\ SlotsOf(CombinedAttempt(mvp)) = SlotsOf(DeviceState)
           /\ CombinedAttempt(mvp).res = {}

\* A decomposition has failed while a World and a View were held.
C8_Witness ==
    /\ g_combinedMvpDebug.strategy = "Failed"
    /\ g_cameraMatrices.hasMVP
    /\ dev.m_hasWorld /\ dev.m_hasView /\ ~dev.m_hasProj

\* The provenance of a published slot the claim compares.
Provenance(source) ==
    << source.valid, source.shaderKey, source.baseRegister, source.rows, source.transposed >>

\* C9: in every reachable state, a decomposition attempt that succeeds
\* replaces World, View and Projection together: all three are set and
\* published with the provenance of the combined window (shader, register,
\* rows, transposed), all three are refreshed in the current frame and
\* marked resolved, and the View and Projection locks are what they were.
C9_SuccessPublishesAllThree ==
    \A mvp \in CombinedCandidates :
        CombinedAttempt(mvp).dbg.succeeded
        => /\ \A slot \in {"World", "View", "Projection"} :
                  Provenance(CombinedAttempt(mvp).src[slot])
                      = << TRUE, dev.m_currentVertexShader, 0, 4, FALSE >>
           /\ CombinedAttempt(mvp).dev.m_hasWorld
           /\ CombinedAttempt(mvp).dev.m_hasView
           /\ CombinedAttempt(mvp).dev.m_hasProj
           /\ CombinedAttempt(mvp).dev.m_worldLastFrame = g_frameCount
           /\ CombinedAttempt(mvp).dev.m_viewLastFrame = g_frameCount
           /\ CombinedAttempt(mvp).dev.m_projLastFrame = g_frameCount
           /\ CombinedAttempt(mvp).cam.world = CombinedAttempt(mvp).dev.m_currentWorld
           /\ CombinedAttempt(mvp).cam.view = CombinedAttempt(mvp).dev.m_currentView
           /\ CombinedAttempt(mvp).cam.projection = CombinedAttempt(mvp).dev.m_currentProj
           /\ CombinedAttempt(mvp).res = {"World", "View", "Projection"}
           /\ LocksOf(CombinedAttempt(mvp)) = LocksOf(DeviceState)

\* A decomposition has succeeded, from shader 0, while the View lock was held
\* by shader 1: the three slots carry the combined window's provenance.
C9_Witness ==
    /\ g_combinedMvpDebug.succeeded
    /\ g_combinedMvpDebug.strategy = "WorldAndMVP"
    /\ dev.m_viewLockedShader = 1
    /\ ViewPair = << 0, 0 >> /\ ProjPair = << 0, 0 >>
    /\ g_matrixSources["World"].shaderKey = 0
    /\ dev.m_viewLastFrame = g_frameCount /\ dev.m_projLastFrame = g_frameCount
    /\ dev.m_worldLastFrame = g_frameCount

\* The strategies g_combinedMvpDebug shows after TryDecomposeCombinedMVP ran.
Decomposed == {"WorldAndMVP", "MVPOnly", "Failed"}

\* updateFromClassification for the candidate mvp at c0, found in a window of
\* the given rows and class, with the slots in resolved already resolved by
\* earlier windows of the upload; the debug state is as BeginScene leaves it.
CandidateUpdate(mvp, rows, cls, resolved) ==
    UpdateFromClassification(
        [DeviceState EXCEPT !.res = resolved, !.dbg = NoDebug],
        mvp, 0, rows, FALSE,
        [shaderKey |-> dev.m_currentVertexShader, StartRegister |-> 0,
         Vector4fCount |-> rows, data |-> Rows(mvp),
         suppressView |-> FALSE, suppressWorld |-> FALSE],
        cls, NoAnalysis)

\* C10: in every reachable state, a candidate is decomposed only if combined
\* handling is enabled, World, View and Projection are not all held, the
\* window has 4 rows and class CombinedPerspective, and no slot was resolved
\* by an earlier window of the upload; with combined handling disabled a
\* CombinedPerspective candidate leaves World, View and Projection alone.
C10_DecompositionGates ==
    \A mvp \in CombinedCandidates, rows \in {3, 4},
       cls \in {"CombinedPerspective", "None"},
       resolved \in SUBSET {"World", "View", "Projection"} :
        /\ CandidateUpdate(mvp, rows, cls, resolved).dbg.strategy \in Decomposed
           => /\ g_config.enableCombinedMVP
              /\ ~(dev.m_hasWorld /\ dev.m_hasView /\ dev.m_hasProj)
              /\ rows = 4 /\ cls = "CombinedPerspective" /\ resolved = {}
        /\ (~g_config.enableCombinedMVP /\ cls = "CombinedPerspective")
           => SlotsOf(CandidateUpdate(mvp, rows, cls, resolved)) = SlotsOf(DeviceState)

\* Combined handling is disabled and a combined candidate was seen and stored
\* as MVP only, while a World was held and nothing else.
C10_Witness ==
    /\ ~g_config.enableCombinedMVP
    /\ g_combinedMvpDebug.strategy = "Disabled"
    /\ g_cameraMatrices.hasMVP /\ g_cameraMatrices.mvp = CombinedA
    /\ dev.m_hasWorld /\ ~dev.m_hasView /\ ~dev.m_hasProj

\* Whether the rotation rows of the views a and b agree within 1e-3.
SameRotation(a, b) ==
    \A rc \in {11, 12, 13, 21, 22, 23, 31, 32, 33} : Abs(El(a, rc) - El(b, rc)) <= Ratio(1, 1000)

\* C11: with combined handling enabled and no World held, every upload of
\* Combined = R * P, for a view R (rotation and translation) and a canonical
\* projection P, is decomposed with success: afterwards the View slot has the
\* rotation rows of R within 1e-3 and the recovered field of view is within
\* 1e-2 rad of the one P was built with.
C11_DecomposesViewProjection ==
    [][ \A R \in CameraViews, P \in CameraProjections :
            ( /\ g_config.enableCombinedMVP
              /\ ~dev.m_hasWorld
              /\ SetVertexShaderConstantF(0, Rows(MultiplyMatrix(R, P))) )
            => /\ g_combinedMvpDebug'.succeeded
               /\ SameRotation(dev'.m_currentView, R)
               /\ Abs(g_combinedMvpDebug'.fovRadians
                      - AnalyzeProjectionMatrixNumeric(P).fovRadians) <= Ratio(1, 100) ]_vars

\* The matrices the classifier is asked about: the candidates of every window
\* of the camera uploads, in the layout the scan chose, and some more.
ClassifierInputs ==
    UNION { { ScanTable[data][0][rows][offset].mat : offset \in 0..(Len(data) - rows) } :
            data \in CameraUploads, rows \in {3, 4} }
    \cup CameraViews \cup CameraProjections \cup ViewProjections
    \cup {CreateIdentityMatrix, ViewA, WorldA, MirrorA, CombinedA, CombinedB, ZeroMatrix}

\* The upload geometries it is asked about.
UploadGeometries ==
    { [rows |-> rows, vectorCountInUpload |-> count, uploadStartReg |-> start,
       candidateBaseReg |-> base] :
          rows \in {3, 4}, count \in {4, 4 * PaletteBlocks}, start \in StartRegisters,
          base \in StartRegisters }

\* The classes in the order their tests are made, and the outcome of the test
\* of each class.
ClassPriority == << "Projection", "CombinedPerspective", "View", "World" >>

ClassTest(class, m, g) ==
    IF class = "Projection" THEN LooksLikeProjectionStrict(m)
    ELSE IF class = "CombinedPerspective" THEN HasPerspectiveComponent(m)
    ELSE IF class = "View" THEN LooksLikeViewStrict(m)
    ELSE LooksLikeWorldStrict(m, g.rows, g.vectorCountInUpload, g.uploadStartReg,
                              g.candidateBaseReg)

\* What the classifier returns and what the four tests say, computed once.
ClassifierTable ==
    Tabulate([m \in ClassifierInputs |-> Tabulate([g \in UploadGeometries |->
        [class |-> ClassifyMatrixDeterministic(m, g.rows, g.vectorCountInUpload,
                                               g.uploadStartReg, g.candidateBaseReg),
         passes |-> [i \in 1..4 |-> ClassTest(ClassPriority[i], m, g)]]])])

\* C12: for every matrix uploaded or held by the device and every upload
\* geometry, the classifier returns the first class, in the order Projection,
\* CombinedPerspective, View, World, whose test passes, and None exactly when
\* all four tests fail.
C12_FirstPassingClass ==
    \A m \in ClassifierInputs \cup {dev.m_currentWorld, dev.m_currentView, dev.m_currentProj},
       g \in UploadGeometries :
        /\ ClassifierTable[m][g].class = "None"
           <=> \A i \in 1..4 : ~ClassifierTable[m][g].passes[i]
        /\ ClassifierTable[m][g].class # "None"
           => \E i \in 1..4 :
                  /\ ClassPriority[i] = ClassifierTable[m][g].class
                  /\ ClassifierTable[m][g].passes[i]
                  /\ \A j \in 1..(i - 1) : ~ClassifierTable[m][g].passes[j]

\* ProjA passes the projection test and the perspective-component test; with
\* combined handling enabled its upload was stored as Projection and no
\* decomposition was attempted.
C12_Witness ==
    /\ LooksLikeProjectionStrict(ProjA) /\ HasPerspectiveComponent(ProjA)
    /\ g_config.enableCombinedMVP
    /\ dev.m_hasProj /\ dev.m_currentProj = ProjA
    /\ g_matrixSources["Projection"].sourceLabel = "deterministic structural projection"
    /\ g_combinedMvpDebug.strategy = "None"

\* The rigid views that, uploaded alone in four registers at c0, are given a
\* class other than View.
RigidViewsNotView ==
    Enumerate({ m \in RigidViews : ClassifyMatrixDeterministic(m, 4, 4, 0, 0) # "View" })

\* C13: every axis-aligned proper rotation with an integer translation and the
\* last column (0, 0, 0, 1) classifies as View; and in every reachable state
\* where the View lock is free and no Projection was detected in the frame, the
\* upload of such a camera view at c0 sets the View slot to it.
C13_RigidViewIsView ==
    /\ RigidViewsNotView = {}
    /\ \A m \in CameraViews :
           (dev.m_viewLockedShader = 0 /\ dev.m_projDetectedFrame # g_frameCount)
           => /\ UploadResult(0, Rows(m)).dev.m_currentView = m
              /\ "View" \in UploadResult(0, Rows(m)).res

\* The rigid view ViewD, rotation and translation, was uploaded and is the
\* View of the device, from structural detection of a 4-row window.
C13_Witness ==
    /\ ViewD \in RigidViews
    /\ dev.m_hasView /\ dev.m_currentView = ViewD
    /\ g_cameraMatrices.view = ViewD
    /\ g_matrixSources["View"].sourceLabel = "deterministic structural view"
    /\ g_matrixSources["View"].rows = 4 /\ ~g_matrixSources["View"].transposed

\* The arguments CreateProjectionMatrixWithHandedness is called with: fields
\* of view on the 0.1 rad grid from minFOV to maxFOV, three aspect ratios, the
\* near planes in nears, the far plane 1000, the handedness values in hands.
ProjectionArguments(nears, hands) ==
    [fovY : { k * Ratio(1, 10) : k \in 1..25 },
     aspect : {Scale, Ratio(4, 3), Ratio(16, 9)},
     zNear : nears, zFar : {1000 * Scale}, handedness : hands]

\* Near planes the depth terms of the matrix keep apart from zero, and one
\* they do not (a near plane below 1e-4 is 0 on the model's floats).
NearPlanes == {Ratio(1, 1000), Ratio(1, 10), Scale}
TinyNearPlane == 0

\* The matrix built from the arguments a, its class when uploaded alone at c0
\* and its analysis, computed once.
BuiltProjections ==
    Tabulate([a \in ProjectionArguments(NearPlanes \cup {TinyNearPlane},
                                        {"Left", "Right", "Unknown"}) |->
        [class |-> ClassifyMatrixDeterministic(
                       CreateProjectionMatrixWithHandedness(
                           a.fovY, a.aspect, a.zNear, a.zFar, a.handedness), 4, 4, 0, 0),
         analysis |-> AnalyzeProjectionMatrixNumeric(
                          CreateProjectionMatrixWithHandedness(
                              a.fovY, a.aspect, a.zNear, a.zFar, a.handedness))]])

\* The built projection classifies as Projection and gives back its field of
\* view, within 1e-3 rad, and its handedness.
RoundTrips(a) ==
    /\ BuiltProjections[a].class = "Projection"
    /\ Abs(BuiltProjections[a].analysis.fovRadians - a.fovY) <= Ratio(1, 1000)
    /\ BuiltProjections[a].analysis.handedness = a.handedness

\* The arguments whose matrix does not.
FailedRoundTrips ==
    Enumerate({ a \in ProjectionArguments(NearPlanes \cup {TinyNearPlane},
                                          {"Left", "Right", "Unknown"}) : ~RoundTrips(a) })

\* In the current state, with the Projection lock free, the upload at c0 of
\* the built projection ProjR makes it the Projection slot.
BuiltProjectionAccepted ==
    dev.m_projLockedShader = 0
    => /\ UploadResult(0, Rows(ProjR)).dev.m_currentProj = ProjR
       /\ "Projection" \in UploadResult(0, Rows(ProjR)).res

BuildsWindow(baseRegister, rows) ==
    TryBuildMatrixFromConstantUpdate(Rows(ViewA), baseRegister, rows, baseRegister, rows,
                                     FALSE).ok

\* C15: in every reachable state no World, View or Projection slot is bound
\* to a window that extends past register 255, and the builder returns no
\* result when asked for the window a slot is bound to if one of its
\* registers lies outside 0..255.
C15_NoWindowPastLastRegister ==
    \A slot \in {"World", "View", "Projection"} :
        g_matrixSources[slot].valid
        => /\ g_matrixSources[slot].baseRegister + g_matrixSources[slot].rows
                  <= kMaxConstantRegisters
           /\ BuildsWindow(g_matrixSources[slot].baseRegister, g_matrixSources[slot].rows)
              => g_matrixSources[slot].baseRegister + g_matrixSources[slot].rows
                     <= kMaxConstantRegisters

\* The state of the shader key, as GetShaderState(key, false) finds it or as
\* a new one.
FileOf(states, key) == IF key \in DOMAIN states THEN states[key] ELSE NewShaderState

C17_ReleaseClearsStateAndLocks ==
    [][ \A shader \in Shaders :
            ReleaseVertexShader(shader)
            => /\ shader \notin DOMAIN g_shaderConstants'
               /\ dev'.m_viewLockedShader # shader
               /\ dev'.m_projLockedShader # shader ]_vars

\* C18: while a game profile is active the View and Projection locks stay
\* Unlocked, and World, View and Projection are published only by the
\* profile's fixed-register captures, never from a window the structural
\* classifier picked.
C18_ProfileReplacesStructuralPath ==
    g_activeGameProfile # "None"
    => /\ dev.m_viewLockedShader = 0 /\ dev.m_viewLockedRegister = -1
       /\ dev.m_projLockedShader = 0 /\ dev.m_projLockedRegister = -1
       /\ \A slot \in {"World", "View", "Projection"} :
              g_matrixSources[slot].valid
              => /\ g_matrixSources[slot].manual
                 /\ g_matrixSources[slot].sourceLabel
                        \notin {"deterministic structural world",
                                 "deterministic structural view",
                                 "deterministic structural projection",
                                 "Barnyard profile structural world"}

\* The DevilMayCry4 part of C18 alone: its uploads leave the locks Unlocked
\* and every published slot comes from the register the layout fixes for it.
C18_Dmc4FixedRegisters ==
    g_activeGameProfile = "DevilMayCry4"
    => /\ dev.m_viewLockedShader = 0 /\ dev.m_projLockedShader = 0
       /\ g_matrixSources["World"].valid
          => g_matrixSources["World"].baseRegister = Dmc4Layout.worldBase
       /\ g_matrixSources["View"].valid
          => g_matrixSources["View"].baseRegister = Dmc4Layout.viewInverseBase
       /\ g_matrixSources["Projection"].valid
          => g_matrixSources["Projection"].baseRegister = Dmc4Layout.projectionBase

StructuralLabels ==
    [World |-> "deterministic structural world", View |-> "deterministic structural view",
     Projection |-> "deterministic structural projection"]

\* Whether the step from state a to state b wrote the slot structurally.
WroteSlot(a, b, slot) ==
    /\ b.src[slot] # a.src[slot]
    /\ b.src[slot].sourceLabel = StructuralLabels[slot]

\* Whether the window w, examined from state a, is admissible for the slot:
\* it would write it were the slot not resolved yet.
Admissible(a, StartRegister, data, w, slot) ==
    slot \in Examine([a EXCEPT !.res = @ \ {slot}], StartRegister, data, w).res

\* C19: in every reachable state and for every upload, the upload leaves what
\* examining its windows one by one leaves, all 4-row windows by increasing
\* base register and then all 3-row windows by increasing base register; along
\* that order each of World, View and Projection is written structurally at
\* most once, by the first window admissible for it; and from the window on
\* that resolves the last of the three slots no window changes anything.
C19_WindowOrder ==
    \A StartRegister \in StartRegisters, data \in ScanUploads :
        LET n == Len(WindowOrder(Len(data)))
            tr == ExaminedThrough(StartRegister, data, n)
            w(k) == WindowOrder(Len(data))[k]
        IN  /\ UploadResult(StartRegister, data) = tr[n + 1]
            /\ \A slot \in {"World", "View", "Projection"}, k \in 1..n :
                   WroteSlot(tr[k], tr[k + 1], slot)
                   => /\ Admissible(tr[k], StartRegister, data, w(k), slot)
                      /\ \A j \in 1..(k - 1) :
                             /\ ~WroteSlot(tr[j], tr[j + 1], slot)
                             /\ ~Admissible(tr[j], StartRegister, data, w(j), slot)
            /\ \A k \in 1..n :
                   AllSlotsResolved(tr[k + 1]) => tr[n + 1] = tr[k + 1]

\* One upload of twelve registers has resolved all three slots in its 4-row
\* windows: View at c0, Projection at c4, World at c8, although its first
\* three registers are an admissible 3-row View window as well.
C19_Witness ==
    /\ g_matrixSources["View"].valid /\ g_matrixSources["View"].baseRegister = 0
    /\ g_matrixSources["View"].rows = 4
    /\ g_matrixSources["Projection"].valid /\ g_matrixSources["Projection"].baseRegister = 4
    /\ g_matrixSources["World"].valid /\ g_matrixSources["World"].baseRegister = 8
    /\ g_matrixSources["World"].rows = 4
    /\ dev.m_currentView = ViewA /\ dev.m_currentProj = ProjA /\ dev.m_currentWorld = WorldA
    /\ dev.m_viewLastFrame = dev.m_projLastFrame /\ dev.m_projLastFrame = dev.m_worldLastFrame

\* Whether the window w of the upload, examined from state a, is a View
\* candidate that reaches the cross-validation against a Projection accepted
\* structurally in the current frame, and fails it.
FailsCrossValidation(a, StartRegister, data, w) ==
    LET c == ScanTable[data][StartRegister][w.rows][w.offset]
    IN  /\ c.ok /\ c.finalClass # "None" /\ c.cls = "View"
        /\ ~UploadOf(StartRegister, data).suppressView
        /\ "View" \notin a.res
        /\ \/ a.dev.m_viewLockedShader = 0
           \/ /\ dev.m_currentVertexShader = a.dev.m_viewLockedShader
              /\ StartRegister + w.offset = a.dev.m_viewLockedRegister
        /\ a.dev.m_hasProj /\ a.dev.m_projDetectedFrame = g_frameCount
        /\ ~ColumnScalesAgree(MultiplyMatrix(c.mat, a.dev.m_currentProj), a.dev.m_currentProj)

\* C20: in every reachable state and for every upload, a View candidate that
\* fails the cross-validation against the Projection accepted structurally in
\* the current frame leaves everything as it was (the View matrix, its lock,
\* its refresh frame, the published View and its provenance, the resolved
\* flags), and when a later window of the upload is admissible for View the
\* upload ends with View resolved structurally.
C20_RejectedViewHasNoEffect ==
    \A StartRegister \in StartRegisters, data \in ScanUploads :
        LET n == Len(WindowOrder(Len(data)))
            tr == ExaminedThrough(StartRegister, data, n)
            w(k) == WindowOrder(Len(data))[k]
        IN  \A k \in 1..n :
                FailsCrossValidation(tr[k], StartRegister, data, w(k))
                => /\ tr[k + 1] = tr[k]
                   /\ (\E j \in (k + 1)..n :
                           Admissible(tr[j], StartRegister, data, w(j), "View"))
                      => /\ "View" \in UploadResult(StartRegister, data).res
                         /\ UploadResult(StartRegister, data).dev.m_viewLastFrame = g_frameCount

\* The Projection with the x offset was accepted in this frame, and then the
\* upload whose first View fails against it published its second View, from
\* the window four registers up.
C20_Witness ==
    /\ dev.m_hasProj /\ dev.m_projDetectedFrame = g_frameCount
    /\ El(dev.m_currentProj, 41) = 100 * Scale
    /\ dev.m_hasView /\ dev.m_viewLastFrame = g_frameCount
    /\ dev.m_currentView = ViewB
    /\ g_matrixSources["View"].baseRegister = 4
    /\ g_matrixSources["View"].sourceLabel = "deterministic structural view"

\* C21: in every reachable state, a 4-row window of an upload with the
\* canonical projection structure and a perspective-divide term is classified
\* Projection when its field of view lies within the configured
\* [minFOV, maxFOV], and CombinedPerspective when it lies outside.
C21_ProjectionOnlyWithinFov ==
    \A data \in ScanUploads, StartRegister \in StartRegisters :
        \A offset \in 0..(Len(data) - 4) :
            LET mat == TryBuildMatrixFromConstantUpdate(From(data, offset), StartRegister + offset,
                                                        4, StartRegister + offset, 4, FALSE).out
                info == AnalyzeProjectionMatrixNumeric(mat)
                cls == ClassifyMatrixDeterministic(mat, 4, Len(data), StartRegister,
                                                   StartRegister + offset)
            IN  (info.ok /\ HasPerspectiveComponent(mat))
                => IF /\ info.fovRadians >= g_config.minFOV
                      /\ info.fovRadians <= g_config.maxFOV
                   THEN cls = "Projection"
                   ELSE cls = "CombinedPerspective"

\* The combined matrices WorldA * P * WorldA of projections P whose field of
\* view is 0.05 (below minFOV) and 0.008 (below the decomposer's own 0.01).
OutOfBoundsCombined == { CombinedNarrow, CombinedNeedle }

\* The decomposition is attempted with the World matrix WorldA.
AttemptsWithWorldA ==
    /\ g_config.enableCombinedMVP
    /\ dev.m_hasWorld /\ dev.m_currentWorld = WorldA
    /\ ~(dev.m_hasView /\ dev.m_hasProj)

\* C22: in every reachable state where force-decomposition is configured and
\* the World matrix is held, the decomposition of a combined matrix whose
\* recovered field of view is out of bounds succeeds and is published.
C22_ForceSkipsFovBound ==
    (AttemptsWithWorldA /\ g_config.combinedMVPForceDecomposition)
    => \A mvp \in OutOfBoundsCombined :
           /\ CombinedAttempt(mvp).dbg.succeeded
           /\ CombinedAttempt(mvp).cam.hasProjection

\* The same attempt for the ordinary camera succeeds, with or without
\* force-decomposition.
C22_InBoundsDecomposes ==
    AttemptsWithWorldA => CombinedAttempt(CombinedA).dbg.succeeded

\* Force-decomposition never changes the outcome of an attempt.
C22_ForceChangesNothing ==
    \A mvp \in OutOfBoundsCombined \cup {CombinedA} :
        SlotsOf(TryHandleCombinedMVPAlways(DeviceState, mvp, 0, 4, FALSE, dev.m_currentVertexShader))
            = SlotsOf(FinishCombinedMVP(
                  StoreMVPMatrix(DeviceState, mvp, dev.m_currentVertexShader, 0, 4, FALSE, FALSE,
                                 "deterministic structural combined MVP", 0),
                  Decompose([g_config EXCEPT !.combinedMVPForceDecomposition = ~@], mvp,
                            dev.m_currentWorld, dev.m_hasWorld),
                  SelectStrategy(dev.m_hasWorld), 0, 4, FALSE, dev.m_currentVertexShader))

\* The class of the 4-row matrix at the given offset of the upload, in the
\* direct (transposed = FALSE) or the transposed orientation.
FourRowClassAt(data, StartRegister, offset, transposed) ==
    ClassifyMatrixDeterministic(
        TryBuildMatrixFromConstantUpdate(From(data, offset), StartRegister + offset, 4,
                                         StartRegister + offset, 4, transposed).out,
        4, Len(data), StartRegister, StartRegister + offset)

\* The 3-row windows of the upload whose 4-row matrix at the same base is, in
\* one orientation or the other, a Projection or a CombinedPerspective.
PerspectivePrefixes ==
    Tabulate([data \in ScanUploads |-> Tabulate([StartRegister \in StartRegisters |->
        { offset \in 0..(Len(data) - 4) :
              \E transposed \in BOOLEAN :
                  FourRowClassAt(data, StartRegister, offset, transposed)
                      \in {"Projection", "CombinedPerspective"} }])])

\* C23: in every reachable state and for every upload, a 3-row window whose
\* base register b has register b + 3 in the same upload, and whose 4-row
\* matrix at b classifies in either orientation as Projection or
\* CombinedPerspective, is not accepted as View or World, and examining it
\* changes nothing, wherever in the upload's scan it is examined.
C23_PerspectivePrefixRejected ==
    \A StartRegister \in StartRegisters, data \in ScanUploads :
        LET n == Len(WindowOrder(Len(data)))
            tr == ExaminedThrough(StartRegister, data, n)
        IN  \A k \in 1..n :
                LET w == WindowOrder(Len(data))[k]
                IN  (w.rows = 3 /\ w.offset \in PerspectivePrefixes[data][StartRegister])
                    => /\ ScanTable[data][StartRegister][3][w.offset].finalClass
                              \notin {"View", "World"}
                       /\ tr[k + 1] = tr[k]
                       /\ Examine(DeviceState, StartRegister, data, w) = DeviceState

\* The projection with a translation was uploaded alone at c0 and accepted
\* from its 4-row window. Its registers c0-c2 and c1-c3 are both affine
\* matrices by themselves; the World was taken from c1-c3, the window that
\* is no prefix of a 4-row matrix of the upload, and not from c0-c2, which
\* the scan examines first.
C23_Witness ==
    /\ dev.m_hasProj /\ El(dev.m_currentProj, 41) = 100 * Scale
    /\ g_matrixSources["Projection"].baseRegister = 0
    /\ 0 \in PerspectivePrefixes[Rows(dev.m_currentProj)][0]
    /\ ScanTable[Rows(dev.m_currentProj)][0][3][0].cls = "World"
    /\ dev.m_hasWorld
    /\ g_matrixSources["World"].baseRegister = 1 /\ g_matrixSources["World"].rows = 3

\* Whether the matrices a and b agree, entry by entry, within 1e-2.
SameMatrix(a, b) ==
    \A i \in 1..16 : Abs(a[i] - b[i]) <= Ratio(1, 100)

\* The product TryDecomposeCombinedMVP isolates the View from, with the World
\* matrix world held.
ViewIsolationProduct(mvp, world) ==
    MultiplyMatrix(mvp, InvertMatrix4x4Deterministic(world).out)

\* The product TryExtractProjectionFromCombined extracts the Projection from,
\* called by TryDecomposeCombinedMVP with the product above.
ProjectionExtractionProduct(mvp, world) ==
    MultiplyMatrix(InvertMatrix4x4Deterministic(world).out, ViewIsolationProduct(mvp, world))

\* C24: in every reachable state where a World matrix W is held and
\* invertible, for a combined matrix W * V * P the product the Projection is
\* extracted from and the product the View is isolated from are the same
\* matrix, and it is V * P.
C24_WorldRemovedOnce ==
    (dev.m_hasWorld /\ InvertMatrix4x4Deterministic(dev.m_currentWorld).ok)
    => \A V \in CameraViews, P \in CameraProjections :
           LET mvp == MultiplyMatrix(dev.m_currentWorld, MultiplyMatrix(V, P))
           IN  /\ SameMatrix(ProjectionExtractionProduct(mvp, dev.m_currentWorld),
                             ViewIsolationProduct(mvp, dev.m_currentWorld))
               /\ SameMatrix(ViewIsolationProduct(mvp, dev.m_currentWorld),
                             MultiplyMatrix(V, P))

\* The three transforms the device holds.
DeviceTransforms(device) == << device.world, device.view, device.projection >>

\* The step is an upload that covers the registers c16-c19.
UploadsMgrWorld ==
    \E up \in MgrUploads :
        /\ SetVertexShaderConstantF(up.StartRegister, up.data)
        /\ up.StartRegister <= 16
        /\ up.StartRegister + Len(up.data) >= 20

\* C25: under the MetalGearRising profile, in every step: a draw hands the
\* held World, View and Projection to the device when all three are held and
\* leaves the device's transforms alone otherwise; BeginScene drops the World
\* and keeps View and Projection, and Present keeps all three; and the World
\* is held again only through an upload covering c16-c19, so that a World
\* forwarded by a draw was uploaded since the most recent BeginScene.
C25_MgrDrawNeedsFreshWorld ==
    [][ g_activeGameProfile = "MetalGearRising"
        => /\ DrawPrimitive
              => DeviceTransforms(realDevice')
                     = IF dev.m_hasWorld /\ dev.m_hasView /\ dev.m_hasProj
                       THEN << dev.m_currentWorld, dev.m_currentView, dev.m_currentProj >>
                       ELSE DeviceTransforms(realDevice)
           /\ BeginScene
              => /\ ~dev'.m_hasWorld
                 /\ << dev'.m_hasView, dev'.m_currentView, dev'.m_hasProj, dev'.m_currentProj >>
                        = << dev.m_hasView, dev.m_currentView, dev.m_hasProj, dev.m_currentProj >>
           /\ Present => dev' = dev
           /\ (~dev.m_hasWorld /\ dev'.m_hasWorld) => UploadsMgrWorld ]_vars

\* The same with the game's SetTransform calls kept out of the round-trip
\* compatibility mode: the property holds.
C25_HoldsOutsideRoundTrip ==
    [][ ~g_config.setTransformRoundTripCompatibilityMode
        => ( g_activeGameProfile = "MetalGearRising"
             => /\ DrawPrimitive
                   => DeviceTransforms(realDevice')
                          = IF dev.m_hasWorld /\ dev.m_hasView /\ dev.m_hasProj
                            THEN << dev.m_currentWorld, dev.m_currentView, dev.m_currentProj >>
                            ELSE DeviceTransforms(realDevice)
                /\ BeginScene => ~dev'.m_hasWorld
                /\ (~dev.m_hasWorld /\ dev'.m_hasWorld) => UploadsMgrWorld ) ]_vars

\* A draw has forwarded a World that the game passed to SetTransform, with no
\* World uploaded to c16-c19 at all.
C25_ForwardedWithoutUpload ==
    /\ g_activeGameProfile = "MetalGearRising"
    /\ dev.m_hasWorld /\ dev.m_hasView /\ dev.m_hasProj
    /\ g_matrixSources["World"].sourceLabel = "game SetTransform(World)+GetTransform compatibility"
    /\ realDevice.world = dev.m_currentWorld
    /\ realDevice.projection = ProjA

\* A combined candidate is handled with the decomposition enabled and no
\* World held.
HandledWithoutWorld ==
    /\ g_config.enableCombinedMVP
    /\ ~dev.m_hasWorld

\* C26: in every reachable state where no World is held, tryHandleCombinedMVP
\* goes on to the decomposition of a CombinedPerspective candidate only if
\* combinedMVPRequireWorld is false and combinedMVPAssumeIdentityWorld is
\* true; in every other configuration it does not call the decomposer and
\* leaves the World, View and Projection slots as they are.
C26_IdentityWorldOnlyWhenAssumed ==
    HandledWithoutWorld
    => \A mvp \in CombinedCandidates :
           IF ~g_config.combinedMVPRequireWorld /\ g_config.combinedMVPAssumeIdentityWorld
           THEN AttemptsDecomposition(CombinedAttempt(mvp).dbg.strategy)
           ELSE /\ ~AttemptsDecomposition(SelectStrategy(dev.m_hasWorld))
                /\ SlotsOf(CombinedAttempt(mvp)) = SlotsOf(DeviceState)

\* What holds of the slots: with no World held no CombinedPerspective
\* candidate is decomposed, whatever the options.
C26_SlotsUnchangedWithoutWorld ==
    HandledWithoutWorld
    => \A mvp \in CombinedCandidates :
           /\ ~CombinedAttempt(mvp).dbg.succeeded
           /\ SlotsOf(CombinedAttempt(mvp)) = SlotsOf(DeviceState)

\* The published World, View and Projection of a CameraMatrices value.
PublishedTriple(cam) ==
    << cam.world, cam.hasWorld, cam.view, cam.hasView, cam.projection, cam.hasProjection >>

\* C27: in every step in which the render thread's upload of one matrix
\* publishes a decomposition while another thread calls
\* Proxy_GetCameraMatrices, the snapshot holds either the World, View and
\* Projection of that decomposition, all three, or the three that were
\* published before it, none of the decomposition's.
C27_SnapshotNeverPartial ==
    [][ \A data \in SnapshotUploads :
            ( /\ SetVertexShaderConstantFQueried(0, data)
              /\ g_combinedMvpDebug'.succeeded )
            => PublishedTriple(snapshot')
                   \in { PublishedTriple(g_cameraMatrices), PublishedTriple(g_cameraMatrices') }
      ]_vars

\* The snapshot holds the World of a decomposition whose View and Projection
\* were not published yet.
C27_PartialSnapshot ==
    /\ g_combinedMvpDebug.succeeded
    /\ snapshot.hasWorld /\ snapshot.world = g_cameraMatrices.world
    /\ g_cameraMatrices.hasView /\ g_cameraMatrices.hasProjection
    /\ ~snapshot.hasView /\ ~snapshot.hasProjection

\* A query that does not overlap an upload returns what is published.
C27_SequentialQueryIsWhole ==
    [][ Proxy_GetCameraMatrices => snapshot' = g_cameraMatrices ]_vars

\* C28: every frame the device presents, through Present or through
\* PresentEx, advances g_frameCount by exactly one and, with no profile
\* active, leaves the View and Projection locks reset.
C28_EveryPresentCountsAFrame ==
    [][ (Present \/ PresentEx)
        => /\ realCalls'.presents = realCalls.presents + 1
           /\ g_frameCount' = g_frameCount + 1
           /\ g_activeGameProfile = "None"
              => << dev'.m_viewLockedShader, dev'.m_viewLockedRegister,
                    dev'.m_projLockedShader, dev'.m_projLockedRegister >>
                     = << 0, -1, 0, -1 >> ]_vars

\* The same for Present alone, and for PresentEx on a device without the Ex
\* interface: it holds.
C28_PresentCountsAFrame ==
    [][ (Present \/ (PresentEx /\ ~dev.m_realEx))
        => /\ realCalls'.presents = realCalls.presents + 1
           /\ g_frameCount' = g_frameCount + 1
           /\ g_activeGameProfile = "None"
              => << dev'.m_viewLockedShader, dev'.m_viewLockedRegister,
                    dev'.m_projLockedShader, dev'.m_projLockedRegister >>
                     = << 0, -1, 0, -1 >> ]_vars

\* The device has presented frames the engine did not count, with a View
\* lock of an earlier frame still held.
C28_UncountedFrame ==
    /\ dev.m_realEx
    /\ realCalls.presents > g_frameCount
    /\ dev.m_viewLockedShader # 0

C29_ForwardedAfterCapture ==
    /\ g_activeGameProfile = "None"
    /\ realCalls.vsConstantF = << [StartRegister |-> 4, Vector4fCount |-> 4] >>
    /\ g_cameraMatrices.hasProjection

\* C30: at most one scanner thread exists at a time, and once the scanner
\* thread has finished and StartMemoryScanner has returned,
\* g_memoryScannerThread is null.
C30_HandleNullWhenScannerDone ==
    /\ Cardinality(scan.scanning \cup scan.exiting) <= 1
    /\ (scan.scanning \cup scan.exiting = {} /\ scan.pending = -1)
       => scan.g_memoryScannerThread = 0

\* No scanner thread exists, the render thread is outside StartMemoryScanner,
\* and the handle of a finished thread is still stored.
C30_StaleHandle ==
    /\ scan.scanning \cup scan.exiting = {}
    /\ scan.pending = -1
    /\ scan.g_memoryScannerThread # 0

\* A stale handle stays: no step clears it and no step creates a thread.
C30_StaleHandleStays ==
    [][ C30_StaleHandle => (C30_StaleHandle' /\ scan'.created = scan.created) ]_vars

\* A thread that has cleared the handle still exists beside its successor.
C30_TwoScannerThreads ==
    Cardinality(scan.scanning \cup scan.exiting) = 2

\* Not more than one thread is ever before its clearing of the handle.
C30_OneThreadScanning ==
    Cardinality(scan.scanning) <= 1
====
